---------------------------- MODULE Spec2Model ----------------------------
(***************************************************************************)
(* Model of the TRILL RBridge data plane of net/bridge/rbridge/rbr.c       *)
(* (build without CONFIG_TRILL_VNT).                                       *)
(*                                                                         *)
(* Two specifications share the variables and the control-plane code:      *)
(*   Spec      every call (control plane or rbr_handle_frame) runs to      *)
(*             completion before the next one starts;                      *)
(*   ConcSpec  one receive handler runs step by step, one step per access  *)
(*             to shared memory, interleaved with the control plane.       *)
(***************************************************************************)
EXTENDS Integers, Sequences, FiniteSets, TLC

(***************************************************************************)
(* Bounds of the model.                                                    *)
(***************************************************************************)
\* hop counts of the frames offered to the handler are 0..MaxHop
MaxHop == 2
\* node objects that can exist at once for one nickname (live or leaked)
MaxGen == 2

(***************************************************************************)
(* Program constants.                                                      *)
(***************************************************************************)
RBRIDGE_NICKNAME_MIN == 0
RBRIDGE_NICKNAME_MAX == 65535
RBRIDGE_NICKNAME_NONE == RBRIDGE_NICKNAME_MIN
RBRIDGE_NICKNAME_UNUSED == RBRIDGE_NICKNAME_MAX
TRILL_PROTOCOL_VERS == 0
\* initial hop count of a fresh encapsulation; the 6-bit field holds 0..63
TRILL_DEFAULT_HOPS == 21
HopModulus == 64

\* the nicknames the model works with: both reserved values and two others
SampleNicks == {RBRIDGE_NICKNAME_NONE, 1, 2, RBRIDGE_NICKNAME_UNUSED}

VALID_NICK(n) == n # RBRIDGE_NICKNAME_NONE /\ n # RBRIDGE_NICKNAME_UNUSED

ValidNicks == {n \in SampleNicks : VALID_NICK(n)}

\* MAC addresses: MP the receiving port's device, MQ the device of a port the
\* fdb resolves to, MR the bridge device, MB and MC neighbour RBridges, MX any
\* other station, BPDU the TRILL BPDU group, ES1 and ES2 end stations.
AdjMacs == {"MB", "MC"}

Gens == 1..MaxGen

\* A pointer to a neighbour node: <<nickname, generation>>; NULLNODE is NULL.
NULLNODE == <<0, 0>>

NodePtrs == ValidNicks \X Gens

\* struct rbr_nickinfo as far as rbr.c reads it
NoNi == [adjsnpa |-> "00", adjs |-> <<>>, dtroots |-> <<>>]

\* the descriptors the control plane installs
NiSet ==
  { [adjsnpa |-> "MB", adjs |-> <<1, 2, 1>>, dtroots |-> <<>>],
    [adjsnpa |-> "MC", adjs |-> <<1, 2>>,    dtroots |-> <<1>>],
    [adjsnpa |-> "MB", adjs |-> <<2, 0, 2>>, dtroots |-> <<2>>],
    [adjsnpa |-> "MC", adjs |-> <<>>,        dtroots |-> <<>>] }

VARIABLES
  trill_enabled,  \* br->trill_enabled = BR_TRILL
  br_rbr,         \* br->rbr: "NULL" or "RBR", the address of the one struct rbr
  rbr_alive,      \* the struct rbr at that address is allocated (not kfree'd)
  nick,           \* rbr->nick
  treeroot,       \* rbr->treeroot
  rbr_nodes,      \* rbr->rbr_nodes[]: nickname -> generation, 0 for NULL
  node,           \* the node objects: pointer -> [ni, refs]; refs = 0: destroyed
  last,           \* what the rbr_handle_frame call on record was given and did
  ctl,            \* the control-plane call on record, and the state it found
  hpc,            \* ConcSpec: the handler's position
  hl,             \* ConcSpec: the handler's local variables
  cpc,            \* ConcSpec: the control-plane call in progress
  lock,           \* br->lock: "free", "ctl"
  peer,           \* the call of the handler at the neighbour RBridge that
                  \* received the frame the call on record emitted
  cth,            \* CtlSpec: the threads calling br_trill_set_enabled
  rbrs            \* CtlSpec: the addresses of the struct rbr allocated

vars == <<trill_enabled, br_rbr, rbr_alive, nick, treeroot, rbr_nodes, node,
          last, ctl, hpc, hl, cpc, lock, peer, cth, rbrs>>


(***************************************************************************)
(* Frames and buffers.                                                     *)
(***************************************************************************)
NoTrh == [version |-> 0, md |-> 0, optlen |-> 0, hop |-> 0, egress |-> 0,
          ingress |-> 0]

NoInner == [h_dest |-> "00", h_source |-> "00", h_proto |-> "00", tag |-> "none"]

\* the end-station frame every TRILL frame of the model carries
InnerFrame == [h_dest |-> "ES2", h_source |-> "ES1", h_proto |-> "IP",
               tag |-> "none"]

\* struct sk_buff as far as rbr.c reads and writes it.  tag is an 802.1Q tag
\* in the frame, vlan_tci the out-of-band (accelerated) tag, short says that
\* skb->len < trhsize + ETH_HLEN.
MkSkb(port, loopback, src_ok, dst, src, proto, trh, inner, accel, short) ==
  [id |-> "skb", port |-> port, loopback |-> loopback, src_ok |-> src_ok,
   h_dest |-> dst, h_source |-> src, h_proto |-> proto, tag |-> "none",
   vlan_tci |-> accel, trh |-> trh, inner |-> inner, short |-> short,
   encapsulation |-> FALSE]

Hops == 0..MaxHop

\* headers with the protocol version, no options and two valid nicknames
GoodHdrs ==
  [version : {TRILL_PROTOCOL_VERS}, md : {0, 1}, optlen : {0}, hop : Hops,
   egress : ValidNicks, ingress : ValidNicks]

\* headers with a nickname that is not valid
BadNickHdrs ==
  { h \in [version : {TRILL_PROTOCOL_VERS}, md : {0, 1}, optlen : {0},
           hop : {1}, egress : SampleNicks, ingress : SampleNicks] :
      ~VALID_NICK(h.egress) \/ ~VALID_NICK(h.ingress) }

\* headers with another version, or with an options area
BadFlagHdrs ==
  { [h EXCEPT !.version = 1] : h \in {g \in GoodHdrs : g.hop = 1} } \cup
  { [h EXCEPT !.optlen = 1] : h \in {g \in GoodHdrs : g.hop = 1} }

\* headers with the largest hop count the 6-bit field holds
MaxHopHdrs ==
  [version : {TRILL_PROTOCOL_VERS}, md : {0, 1}, optlen : {0},
   hop : {HopModulus - 1}, egress : {1}, ingress : {2}]

TrillSkb(dst, src, h, short) ==
  MkSkb("fabric", FALSE, TRUE, dst, src, "TRILL", h, InnerFrame, "none", short)

\* TRILL frames arriving on a fabric port: the well-formed ones from
\* neighbour MB, the multi-destination ones also from MC, and frames with one
\* defect
TrillFrames ==
  { TrillSkb("MP", "MB", h, FALSE) : h \in GoodHdrs \cup MaxHopHdrs } \cup
  { TrillSkb("MP", "MC", h, FALSE) : h \in {g \in GoodHdrs : g.md = 1} } \cup
  { TrillSkb("MX", "MB", h, FALSE) : h \in GoodHdrs \cup BadNickHdrs } \cup
  { TrillSkb("MP", "MB", h, FALSE) : h \in BadNickHdrs \cup BadFlagHdrs } \cup
  { TrillSkb("MP", "MB", h, TRUE) : h \in {g \in GoodHdrs : g.hop = 1} }

\* end-station frames arriving on a guest port, with or without an
\* accelerated VLAN tag
GuestFrames ==
  { MkSkb("guest", FALSE, TRUE, "ES2", "ES1", "IP", NoTrh, NoInner, a, FALSE) :
      a \in {"none", "vid10"} }

\* the frames the classifier turns away or hands elsewhere
OtherFrames ==
  { MkSkb(p, lb, so, d, "ES1", "IP", NoTrh, NoInner, "none", FALSE) :
      p \in {"none", "guest", "fabric"}, lb \in BOOLEAN, so \in BOOLEAN,
      d \in {"BPDU", "MR", "MX"} } \cup
  { MkSkb("none", FALSE, TRUE, "MP", "MB", "TRILL", h, InnerFrame, "none", FALSE) :
      h \in {[NoTrh EXCEPT !.hop = 1, !.egress = 1, !.ingress = 2]} }

Frames == TrillFrames \cup GuestFrames \cup OtherFrames

(***************************************************************************)
(* What the collaborators answer during one call of the handler.           *)
(***************************************************************************)
DefaultEnv ==
  [share_ok |-> TRUE, vlan_ok |-> TRUE, local_guest |-> FALSE,
   nick_from_mac |-> RBRIDGE_NICKNAME_NONE, pull_ok |-> TRUE,
   clone_ok |-> TRUE, copy_fail |-> 0, vlan_insert_ok |-> TRUE,
   cow_ok |-> TRUE, fdb |-> {}]

\* the fdb either knows nothing or knows neighbour MB and end station ES2
FdbSets == {{}, {"MB", "ES2"}}

\* Every failure ends the call, so one call meets at most one of them.
Faults ==
  { DefaultEnv,
    [DefaultEnv EXCEPT !.share_ok = FALSE],
    [DefaultEnv EXCEPT !.vlan_ok = FALSE],
    [DefaultEnv EXCEPT !.pull_ok = FALSE],
    [DefaultEnv EXCEPT !.clone_ok = FALSE],
    [DefaultEnv EXCEPT !.vlan_insert_ok = FALSE],
    [DefaultEnv EXCEPT !.cow_ok = FALSE] } \cup
  { [DefaultEnv EXCEPT !.copy_fail = i] : i \in 1..3 }

(***************************************************************************)
(* The state one call of the handler works on: the shared state it reads   *)
(* (rbr, nick, treeroot, rbr_nodes, node), and what it has done so far:    *)
(* out, the buffers handed to the bridge's primitives, in order; sent, the *)
(* nicknames rbr_fwd has sent a buffer toward, in order; bufs, for         *)
(* each buffer the ends it has met ("freed" or the primitive it was handed *)
(* to); rx and tx, the increments of stats.rx_dropped and tx_dropped;      *)
(* calls, the functions of rbr.c entered; learned, the fdb updates; rv,    *)
(* the value the function just left returned.                              *)
(***************************************************************************)
Machine(rbr, n, t, tab, nd) ==
  [rbr |-> rbr, nick |-> n, treeroot |-> t, rbr_nodes |-> tab, node |-> nd,
   out |-> <<>>, sent |-> <<>>, bufs |-> ("skb" :> <<>>), rx |-> 0, tx |-> 0,
   calls |-> {}, learned |-> {}, rv |-> "none"]

\* kfree_skb(skb)
kfree_skb(m, skb) == [m EXCEPT !.bufs[skb.id] = Append(@, "freed")]

\* a primitive of the bridge that takes the buffer over
HandOff(m, op, skb) ==
  [m EXCEPT !.out = Append(@, [op |-> op, skb |-> skb]),
            !.bufs[skb.id] = Append(@, op)]

\* skb_clone and skb_copy: a new buffer with the same content
NewBuf(m, skb, id) == [m EXCEPT !.bufs = @ @@ (id :> <<>>)]

Enter(m, f) == [m EXCEPT !.calls = @ \cup {f}]

CopyIds == <<"copy1", "copy2", "copy3">>

\* br_fdb_update and br_fdb_update_nick
br_fdb_update(m, mac, vid, nk) ==
  [m EXCEPT !.learned = @ \cup {<<mac, vid, nk>>}]

(***************************************************************************)
(* Neighbour nodes.                                                        *)
(***************************************************************************)
\* rbr_node_get: atomic_inc(&rbr_node->refs) unless the pointer is NULL
rbr_node_get(nd, ptr) ==
  IF ptr = NULLNODE THEN nd ELSE [nd EXCEPT ![ptr].refs = @ + 1]

\* rbr_node_put: atomic_dec_and_test(&rbr_node->refs), and the node is freed
\* when the count reaches zero
rbr_node_put(nd, ptr) ==
  IF ptr = NULLNODE THEN nd
  ELSE IF nd[ptr].refs = 1 THEN [nd EXCEPT ![ptr] = [ni |-> NoNi, refs |-> 0]]
  ELSE [nd EXCEPT ![ptr].refs = @ - 1]

\* rcu_dereference(rbr->rbr_nodes[nickname]), NULL for a nickname not valid
SlotPtr(tab, nickname) ==
  IF ~VALID_NICK(nickname) THEN NULLNODE
  ELSE IF tab[nickname] = 0 THEN NULLNODE
  ELSE <<nickname, tab[nickname]>>

\* rbr_find_node when nothing runs between its load and its increment:
\* the pointer it returns, and the machine after the rbr_node_get
rbr_find_node(m, nickname) == SlotPtr(m.rbr_nodes, nickname)

Got(m, ptr) == [m EXCEPT !.node = rbr_node_get(@, ptr)]

Put(m, ptr) == [m EXCEPT !.node = rbr_node_put(@, ptr)]

(***************************************************************************)
(* Forwarder: rbr_fwd and rbr_fwd_finish.                                  *)
(***************************************************************************)
\* trillhdr_dec_hopcount: the 6-bit hop count less one
trillhdr_dec_hopcount(hop) == (hop + HopModulus - 1) % HopModulus

\* rbr_fwd_finish: the fdb is asked for the outer destination
rbr_fwd_finish(m, e, skb) ==
  IF skb.h_dest \in e.fdb
  THEN HandOff(m, "br_forward", [skb EXCEPT !.h_source = "MQ"])
  ELSE HandOff(m, "br_trill_flood_forward", skb)

\* the rewrite without the hop count decrement
FwdRewrite_nodec(skb, adjsnpa) ==
  [skb EXCEPT !.h_source = "MR", !.h_dest = adjsnpa]

\* the header rewrite of rbr_fwd
FwdRewrite(skb, adjsnpa) ==
  [skb EXCEPT !.trh.hop = trillhdr_dec_hopcount(@),
              !.h_source = "MR",
              !.h_dest = adjsnpa]

rbr_fwd(m0, e, skb, adj_nick) ==
  LET m == Enter(m0, "rbr_fwd")
      adj == rbr_find_node(m, adj_nick)
  IN  IF adj = NULLNODE
      THEN kfree_skb([m EXCEPT !.tx = @ + 1], skb)
      ELSE LET m1 == Got(m, adj)
               skb1 == FwdRewrite(skb, m1.node[adj].ni.adjsnpa)
           IN  [rbr_fwd_finish(Put(m1, adj), e, skb1)
                  EXCEPT !.sent = Append(@, adj_nick)]

(***************************************************************************)
(* Replicator: rbr_multidest_fwd.                                          *)
(***************************************************************************)
\* the adjacency is skipped before any lookup
SkipAdjNick(adjnick, ingressnick) ==
  ~VALID_NICK(adjnick) \/ ingressnick = adjnick

\* "do not forward back to adjacency that sent the pkt to us"
PruneLink(adjsnpa, saddr) == saddr # "NULL" /\ adjsnpa = saddr

\* the first adjacency kept for the buffer itself whatever free says
DeferFirst_always(nicksaved, free) == ~nicksaved

\* "save the first found adjacency to avoid coping SKB"
DeferFirst(nicksaved, free) == ~nicksaved /\ free

\* multidest_fwd_fail
multidest_fwd_fail(m, skb) ==
  [kfree_skb([m EXCEPT !.tx = IF skb.port # "none" THEN @ + 1 ELSE @], skb)
     EXCEPT !.rv = "fail"]

\* the for loop from index i on (adjacencies count from 1 here), and what
\* follows it; c holds the arguments, sv the saved nickname (0: none saved)
RECURSIVE multidest_loop(_, _, _, _, _)
multidest_loop(m, e, c, i, sv) ==
  LET ni == m.node[c.dest].ni IN
  IF i > Len(ni.adjs)
  THEN LET m1 == Put(m, c.dest)
       IN  [(IF sv # 0 THEN rbr_fwd(m1, e, c.skb, sv) ELSE kfree_skb(m1, c.skb))
              EXCEPT !.rv = "ok"]
  ELSE LET adjnick == ni.adjs[i]
           adj == IF SkipAdjNick(adjnick, c.ingressnick) THEN NULLNODE
                  ELSE rbr_find_node(m, adjnick)
       IN  IF adj = NULLNODE
           THEN multidest_loop(m, e, c, i + 1, sv)
           ELSE LET m1 == Got(m, adj) IN
                IF PruneLink(m1.node[adj].ni.adjsnpa, c.saddr)
                THEN multidest_loop(Put(m1, adj), e, c, i + 1, sv)
                ELSE IF DeferFirst(sv # 0, c.free)
                THEN multidest_loop(Put(m1, adj), e, c, i + 1, adjnick)
                ELSE IF e.copy_fail = i
                THEN multidest_fwd_fail([m1 EXCEPT !.tx = @ + 1], c.skb)
                ELSE LET skb2 == [c.skb EXCEPT !.id = CopyIds[i]]
                         m2 == rbr_fwd(NewBuf(m1, c.skb, skb2.id), e, skb2, adjnick)
                     IN  multidest_loop(Put(m2, adj), e, c, i + 1, sv)

rbr_multidest_fwd(m0, e, skb, egressnick, ingressnick, saddr, free) ==
  LET m == Enter(m0, "rbr_multidest_fwd") IN
  IF skb.port = "none" THEN multidest_fwd_fail(m, skb)
  ELSE IF m.rbr = "NULL" THEN multidest_fwd_fail(m, skb)
  ELSE LET dest == rbr_find_node(m, egressnick) IN
       IF dest = NULLNODE THEN multidest_fwd_fail(m, skb)
       ELSE multidest_loop(Got(m, dest), e,
                           [skb |-> skb, dest |-> dest,
                            ingressnick |-> ingressnick, saddr |-> saddr,
                            free |-> free], 1, 0)

(***************************************************************************)
(* Encapsulator: rbr_encaps and rbr_encaps_prepare.                        *)
(***************************************************************************)
\* the two nicknames in each other's place
EncapsHdr_swapped(ingressnick, egressnick, multidest) ==
  [version |-> TRILL_PROTOCOL_VERS, md |-> IF multidest THEN 1 ELSE 0,
   optlen |-> 0, hop |-> TRILL_DEFAULT_HOPS, egress |-> ingressnick,
   ingress |-> egressnick]

\* the TRILL header rbr_encaps pushes
EncapsHdr(ingressnick, egressnick, multidest) ==
  [version |-> TRILL_PROTOCOL_VERS, md |-> IF multidest THEN 1 ELSE 0,
   optlen |-> 0, hop |-> TRILL_DEFAULT_HOPS, egress |-> egressnick,
   ingress |-> ingressnick]

\* the accelerated VLAN tag cleared and not put into the frame
EncapsSkb_tagless(skb, ingressnick, egressnick, multidest) ==
  [skb EXCEPT
     !.inner = [h_dest |-> skb.h_dest, h_source |-> skb.h_source,
                h_proto |-> skb.h_proto, tag |-> skb.tag],
     !.vlan_tci = "none", !.tag = "none", !.encapsulation = TRUE,
     !.h_dest = "00", !.h_source = "00", !.h_proto = "TRILL",
     !.trh = EncapsHdr(ingressnick, egressnick, multidest)]

\* the buffer after a successful rbr_encaps: an accelerated VLAN tag is put
\* into the frame, the frame becomes the inner frame, and the outer header
\* has the TRILL EtherType and no addresses yet
EncapsSkb(skb, ingressnick, egressnick, multidest) ==
  [skb EXCEPT
     !.inner = [h_dest |-> skb.h_dest, h_source |-> skb.h_source,
                h_proto |-> skb.h_proto,
                tag |-> IF skb.vlan_tci # "none" THEN skb.vlan_tci ELSE skb.tag],
     !.vlan_tci = "none", !.tag = "none", !.encapsulation = TRUE,
     !.h_dest = "00", !.h_source = "00", !.h_proto = "TRILL",
     !.trh = EncapsHdr(ingressnick, egressnick, multidest)]

\* vlan_insert_tag (include/linux/if_vlan.h): when it cannot make room for
\* the tag it frees the buffer and returns NULL, which rbr_encaps stores in
\* its own skb; the caller's pointer still names the freed buffer.
vlan_insert_tag(m, e, skb) ==
  IF e.vlan_insert_ok THEN m ELSE kfree_skb(m, skb)

\* rbr_encaps: [m, skb, failed].  skb_cow_head leaves the buffer to the
\* caller when it fails.
rbr_encaps(m, e, skb, ingressnick, egressnick, multidest) ==
  IF skb.vlan_tci # "none" /\ ~e.vlan_insert_ok
  THEN [m |-> vlan_insert_tag(m, e, skb), skb |-> skb, failed |-> TRUE]
  ELSE IF ~e.cow_ok
  THEN [m |-> m, skb |-> skb, failed |-> TRUE]
  ELSE [m |-> m, skb |-> EncapsSkb(skb, ingressnick, egressnick, multidest),
        failed |-> FALSE]

\* encaps_drop
encaps_drop(m, skb) ==
  kfree_skb([m EXCEPT !.tx = IF skb.port # "none" THEN @ + 1 ELSE @], skb)

\* the tree root of the bridge whatever the local node advertises
FloodRoot_treeroot(ni, tree_root) == tree_root

\* the distribution tree root a flooded frame is sent on
FloodRoot(ni, tree_root) ==
  IF Len(ni.dtroots) > 0 THEN ni.dtroots[1] ELSE tree_root

rbr_encaps_prepare(m0, e, skb, egressnick) ==
  LET m == Enter(m0, "rbr_encaps_prepare") IN
  IF skb.port = "none" THEN encaps_drop(m, skb)
  ELSE IF egressnick # RBRIDGE_NICKNAME_NONE /\ ~VALID_NICK(egressnick)
  THEN encaps_drop(m, skb)
  ELSE IF m.rbr = "NULL" THEN [m EXCEPT !.rv = "oops"]
  ELSE IF ~VALID_NICK(m.nick) THEN encaps_drop(m, skb)
  ELSE IF egressnick = RBRIDGE_NICKNAME_NONE
  THEN LET self == rbr_find_node(m, m.nick) IN
       IF self = NULLNODE THEN encaps_drop(m, skb)
       ELSE LET m1 == Got(m, self)
                dtrNick == FloodRoot(m1.node[self].ni, m1.treeroot)
                m2 == Put(m1, self)
            IN  IF ~VALID_NICK(dtrNick) THEN encaps_drop(m2, skb)
                ELSE IF ~e.clone_ok
                THEN encaps_drop([m2 EXCEPT !.tx = @ + 1], skb)
                ELSE LET skb2 == [skb EXCEPT !.id = "skb2"]
                         m3 == HandOff(NewBuf(m2, skb, "skb2"),
                                       "br_endstation_deliver", skb2)
                         r == rbr_encaps(m3, e, skb, m.nick, dtrNick, TRUE)
                     IN  IF r.failed THEN encaps_drop(r.m, skb)
                         ELSE rbr_multidest_fwd(r.m, e, r.skb, dtrNick, m.nick,
                                                "NULL", TRUE)
  ELSE LET r == rbr_encaps(m, e, skb, m.nick, egressnick, FALSE) IN
       IF r.failed THEN encaps_drop(r.m, skb)
       ELSE rbr_fwd(r.m, e, r.skb, egressnick)

(***************************************************************************)
(* Decapsulator: rbr_decaps and rbr_decap_finish.                          *)
(***************************************************************************)
\* the buffer once the TRILL header and the outer header are stripped
DecapsSkb(skb) ==
  [skb EXCEPT !.h_dest = skb.inner.h_dest, !.h_source = skb.inner.h_source,
              !.h_proto = skb.inner.h_proto, !.tag = skb.inner.tag,
              !.trh = NoTrh, !.inner = NoInner, !.encapsulation = FALSE]

rbr_decap_finish(m, e, skb) ==
  IF skb.h_dest \in e.fdb THEN HandOff(m, "br_deliver", skb)
  ELSE HandOff(m, "br_endstation_deliver", skb)

rbr_decaps(m0, e, skb) ==
  LET m == Enter(m0, "rbr_decaps") IN
  IF skb.port = "none" THEN kfree_skb(m, skb)
  ELSE LET skb1 == DecapsSkb(skb)
           m1 == br_fdb_update(m, skb1.h_source, "vid10", skb.trh.ingress)
       IN  rbr_decap_finish(m1, e, skb1)

(***************************************************************************)
(* TRILL receive path: rbr_recv.                                           *)
(***************************************************************************)
\* recv_drop
recv_drop(m, skb) ==
  kfree_skb([m EXCEPT !.rx = IF skb.port # "none" THEN @ + 1 ELSE @], skb)

\* the test the wrong way round
OuterDestMismatch_inverted(skb) == skb.h_dest = "MP"

\* the outer destination is not the receiving port's own address
OuterDestMismatch(skb) == skb.h_dest # "MP"

\* the checks made on the header before rbr->nick is read: "ok" or the
\* reason of the drop
HeaderCheck(skb, e) ==
  IF skb.short THEN "short"
  ELSE IF ~e.pull_ok THEN "nopull"
  ELSE IF ~VALID_NICK(skb.trh.ingress) \/ ~VALID_NICK(skb.trh.egress)
  THEN "nickname"
  ELSE IF skb.trh.version # TRILL_PROTOCOL_VERS THEN "version"
  ELSE "ok"

\* the guard looking at the egress nickname
LoopingBack_egress(trh, local_nick) == trh.egress = local_nick

\* "looping back frame check your config"
LoopingBack(trh, local_nick) == trh.ingress = local_nick

\* the hop count looked at before the egress nickname
UnicastVerdict_hopfirst(trh, local_nick) ==
  IF trh.egress = trh.ingress THEN "drop"
  ELSE IF trh.hop = 0 THEN "drop"
  ELSE IF trh.egress = local_nick THEN "decaps"
  ELSE "fwd"

\* a frame forwarded only when a hop is left after this one
UnicastVerdict_hop1(trh, local_nick) ==
  IF trh.egress = trh.ingress THEN "drop"
  ELSE IF trh.egress = local_nick THEN "decaps"
  ELSE IF trh.hop > 1 THEN "fwd"
  ELSE "drop"

\* a transit frame forwarded without a look at the hop count
UnicastVerdict_zerofwd(trh, local_nick) ==
  IF trh.egress = trh.ingress THEN "drop"
  ELSE IF trh.egress = local_nick THEN "decaps"
  ELSE "fwd"

\* what becomes of a unicast frame
UnicastVerdict(trh, local_nick) ==
  IF trh.egress = trh.ingress THEN "drop"
  ELSE IF trh.egress = local_nick THEN "decaps"
  ELSE IF trh.hop # 0 THEN "fwd"
  ELSE "drop"

\* the loop stopping at the first adjacency the table holds, whatever its
\* address
RECURSIVE AdjCheckIdx_nomac(_, _, _, _)
AdjCheckIdx_nomac(m, adjs, srcaddr, idx) ==
  IF idx > Len(adjs) THEN idx
  ELSE IF rbr_find_node(m, adjs[idx]) # NULLNODE THEN idx
  ELSE AdjCheckIdx_nomac(m, adjs, srcaddr, idx + 1)

\* the index at which the adjacency loop of rbr_recv stops: the first
\* adjacency of the tree root that is in the table with adjsnpa = srcaddr,
\* or the adjacency count plus one.  Every node the loop takes it puts back.
RECURSIVE AdjCheckIdx(_, _, _, _)
AdjCheckIdx(m, adjs, srcaddr, idx) ==
  IF idx > Len(adjs) THEN idx
  ELSE LET adj == rbr_find_node(m, adjs[idx]) IN
       IF adj # NULLNODE /\ m.node[adj].ni.adjsnpa = srcaddr THEN idx
       ELSE AdjCheckIdx(m, adjs, srcaddr, idx + 1)

\* the check without the test that the ingress node advertises no root
RpfAccepts_anyroot(ni, egressnick, dtrNick) ==
  \/ \E i \in 1..Len(ni.dtroots) : ni.dtroots[i] = egressnick
  \/ egressnick = dtrNick

\* the reverse path forwarding check on the ingress node's descriptor
RpfAccepts(ni, egressnick, dtrNick) ==
  \/ \E i \in 1..Len(ni.dtroots) : ni.dtroots[i] = egressnick
  \/ Len(ni.dtroots) = 0 /\ egressnick = dtrNick

\* the hop count of a multi-destination frame not looked at
MdHopExpired_never(trh) == FALSE

\* "check hop count before doing any forwarding"
MdHopExpired(trh) == trh.hop = 0

\* the value rbr_multidest_fwd returned not looked at
ReplicatorFailed_ignored(rv) == FALSE

\* "if (rbr_multidest_fwd(...)) goto recv_drop"
ReplicatorFailed(rv) == rv = "fail"

\* rbr_recv from the multi-destination comment on
recv_multidest(m, e, skb, dtrNick) ==
  LET trh == skb.trh
      dest == rbr_find_node(m, trh.egress)
  IN
  IF dest = NULLNODE THEN recv_drop(m, skb)
  ELSE
  LET m1 == Got(m, dest)
      adjs == m1.node[dest].ni.adjs
  IN
  IF AdjCheckIdx(m1, adjs, skb.h_source, 1) > Len(adjs)
  THEN recv_drop(Put(m1, dest), skb)
  ELSE
  LET source_node == rbr_find_node(m1, trh.ingress) IN
  IF source_node = NULLNODE THEN recv_drop(Put(m1, dest), skb)
  ELSE
  LET m2 == Got(m1, source_node) IN
  IF ~RpfAccepts(m2.node[source_node].ni, trh.egress, dtrNick)
  THEN recv_drop(Put(Put(m2, source_node), dest), skb)
  ELSE IF MdHopExpired(trh)
  THEN recv_drop(Put(m2, dest), skb)
  ELSE
  LET m3 == Put(Put(m2, source_node), dest) IN
  IF ~e.clone_ok THEN recv_drop([m3 EXCEPT !.tx = @ + 1], skb)
  ELSE
  LET skb2 == [skb EXCEPT !.id = "skb2"]
      m4 == rbr_multidest_fwd(NewBuf(m3, skb, "skb2"), e, skb2, trh.egress,
                              trh.ingress, skb.h_source, FALSE)
  IN
  IF ReplicatorFailed(m4.rv) THEN recv_drop(m4, skb)
  ELSE rbr_decaps(m4, e, skb)

rbr_recv(m0, e, skb) ==
  LET m == Enter(m0, "rbr_recv") IN
  IF skb.port = "none" THEN recv_drop(m, skb)
  ELSE IF OuterDestMismatch(skb) THEN recv_drop(m, skb)
  ELSE IF HeaderCheck(skb, e) # "ok" THEN recv_drop(m, skb)
  ELSE IF m.rbr = "NULL" THEN [m EXCEPT !.rv = "oops"]
  ELSE IF LoopingBack(skb.trh, m.nick) THEN recv_drop(m, skb)
  ELSE IF skb.trh.optlen # 0 THEN recv_drop(m, skb)
  ELSE IF skb.trh.md = 0
  THEN CASE UnicastVerdict(skb.trh, m.nick) = "decaps" ->
              rbr_decaps(m, e, [skb EXCEPT !.encapsulation = TRUE])
         [] UnicastVerdict(skb.trh, m.nick) = "fwd" ->
              rbr_fwd(br_fdb_update(m, skb.h_source, "vid10",
                                    RBRIDGE_NICKNAME_NONE),
                      e, [skb EXCEPT !.encapsulation = TRUE], skb.trh.egress)
         [] OTHER -> recv_drop(m, skb)
  ELSE recv_multidest(m, e, [skb EXCEPT !.encapsulation = TRUE], m.treeroot)

(***************************************************************************)
(* IngressClassifier: rbr_handle_frame.                                    *)
(***************************************************************************)
\* the label drop: the buffer is freed and the frame is consumed
handle_drop(m, skb) == [kfree_skb(m, skb) EXCEPT !.rv = "consumed"]

Consumed(m) == IF m.rv = "oops" THEN m ELSE [m EXCEPT !.rv = "consumed"]

rbr_handle_frame(m, e, skb, enabled) ==
  IF skb.port = "none" THEN handle_drop(m, skb)
  ELSE IF ~enabled
  THEN [HandOff(m, "br_handle_frame", skb) EXCEPT !.rv = "bridge"]
  ELSE IF skb.loopback THEN [m EXCEPT !.rv = "pass"]
  ELSE IF ~e.share_ok THEN Consumed(kfree_skb(m, skb))
  ELSE IF ~skb.src_ok THEN handle_drop([m EXCEPT !.rx = @ + 1], skb)
  ELSE IF ~e.vlan_ok THEN handle_drop(m, skb)
  ELSE IF skb.h_dest = "BPDU"
  THEN handle_drop(br_fdb_update(m, skb.h_source, "vid10",
                                 RBRIDGE_NICKNAME_NONE), skb)
  ELSE IF skb.port = "guest"
  THEN IF e.local_guest
       THEN Consumed(HandOff(br_fdb_update(m, skb.h_source, "vid10",
                                           RBRIDGE_NICKNAME_NONE),
                             "br_deliver", skb))
       ELSE Consumed(rbr_encaps_prepare(
                       br_fdb_update(m, skb.h_source, "vid10",
                                     RBRIDGE_NICKNAME_NONE),
                       e, skb, e.nick_from_mac))
  ELSE IF skb.h_proto = "TRILL" THEN Consumed(rbr_recv(m, e, skb))
  ELSE IF skb.h_dest = "MR"
  THEN Consumed(HandOff(m, "br_handle_frame_finish", skb))
  ELSE handle_drop([m EXCEPT !.rx = @ + 1], skb)

(***************************************************************************)
(* The inputs of one call: a frame and the collaborators' answers.  Only   *)
(* the answers the call can ask for vary; the others stay at the default.  *)
(***************************************************************************)
WellFormed(skb) ==
  /\ skb.h_dest = "MP" /\ ~skb.short
  /\ VALID_NICK(skb.trh.ingress) /\ VALID_NICK(skb.trh.egress)
  /\ skb.trh.version = TRILL_PROTOCOL_VERS /\ skb.trh.optlen = 0

EnvsFor(skb) ==
  IF skb \in TrillFrames
  THEN IF ~WellFormed(skb)
       THEN {DefaultEnv} \cup
            (IF skb.h_dest = "MP" /\ ~skb.short
             THEN {[DefaultEnv EXCEPT !.pull_ok = FALSE]} ELSE {})
       ELSE { [f EXCEPT !.fdb = k] :
                f \in IF skb.trh.md = 0
                      THEN {DefaultEnv, [DefaultEnv EXCEPT !.pull_ok = FALSE]}
                      ELSE {x \in Faults : x.share_ok /\ x.vlan_ok /\ x.cow_ok
                                           /\ x.vlan_insert_ok},
                k \in FdbSets }
  ELSE IF skb \in GuestFrames
  THEN { [f EXCEPT !.fdb = k, !.nick_from_mac = n] :
           f \in {x \in Faults : x.share_ok /\ x.vlan_ok /\ x.pull_ok},
           k \in FdbSets, n \in SampleNicks } \cup
       { [DefaultEnv EXCEPT !.local_guest = TRUE],
         [DefaultEnv EXCEPT !.share_ok = FALSE],
         [DefaultEnv EXCEPT !.vlan_ok = FALSE] }
  ELSE IF skb.port # "none" /\ ~skb.loopback /\ skb.src_ok
  THEN { DefaultEnv, [DefaultEnv EXCEPT !.share_ok = FALSE],
         [DefaultEnv EXCEPT !.vlan_ok = FALSE] }
  ELSE { DefaultEnv }

(***************************************************************************)
(* State.                                                                  *)
(***************************************************************************)
NoSkb == MkSkb("none", FALSE, FALSE, "00", "00", "00", NoTrh, NoInner, "none",
               FALSE)

\* no call of the handler is on record
NoLast ==
  [skb |-> NoSkb, env |-> DefaultEnv, ret |-> "none", out |-> <<>>,
   sent |-> <<>>, bufs |-> ("skb" :> <<>>), rx |-> 0, tx |-> 0, calls |-> {},
   learned |-> {}]

FreeNode == [ni |-> NoNi, refs |-> 0]

\* no control-plane call is on record
NoCtl ==
  [op |-> "none", arg |-> 0, rv |-> 0, was_enabled |-> FALSE,
   pre_nick |-> RBRIDGE_NICKNAME_NONE,
   pre_treeroot |-> RBRIDGE_NICKNAME_NONE,
   pre_tab |-> [n \in ValidNicks |-> 0], pre_refs |-> [p \in NodePtrs |-> 0]]

\* the record of a control-plane call made in the current state
CtlRecord(op, arg, rv) ==
  [op |-> op, arg |-> arg, rv |-> rv, was_enabled |-> trill_enabled,
   pre_nick |-> nick, pre_treeroot |-> treeroot, pre_tab |-> rbr_nodes,
   pre_refs |-> [p \in NodePtrs |-> node[p].refs]]

\* no neighbour has received the frame of the call on record
NoPeer == [nick |-> RBRIDGE_NICKNAME_NONE, rec |-> NoLast]

\* the locals of a handler that has not started (ConcSpec)
NoHl ==
  [skb |-> NoSkb, nfm |-> RBRIDGE_NICKNAME_NONE,
   rbr |-> "NULL", nick |-> RBRIDGE_NICKNAME_NONE,
   treeroot |-> RBRIDGE_NICKNAME_NONE,
   dest |-> NULLNODE, adj |-> NULLNODE, src |-> NULLNODE, self |-> NULLNODE,
   idx |-> 0,
   msk |-> NoSkb, megress |-> 0, mingress |-> 0, msaddr |-> "NULL",
   mfree |-> FALSE, mret |-> "none", mrbr |-> "NULL", mdest |-> NULLNODE,
   madj |-> NULLNODE, i |-> 0, sv |-> 0,
   fskb |-> NoSkb, fnick |-> 0, wret |-> "none", frbr |-> "NULL",
   fadj |-> NULLNODE,
   fr |-> "NULL", fn |-> 0, ftgt |-> "none", fret |-> "none", ptr |-> NULLNODE,
   puts |-> <<>>, after |-> "none",
   out |-> <<>>, sent |-> <<>>, bufs |-> ("skb" :> <<>>), rx |-> 0, tx |-> 0,
   calls |-> {}, learned |-> {}, rv |-> "none", fault |-> "none"]

\* no control-plane call is in progress (ConcSpec): pc is the position in
\* br_trill_stop, old its local variable, ops the kinds of call made and
\* calls their number
NoCpc == [pc |-> "idle", ops |-> {}, old |-> "NULL", calls |-> 0]

\* the threads of the control plane (CtlSpec)
Threads == {1, 2}

\* a thread that is in no call of br_trill_set_enabled (CtlSpec): pc is its
\* position, val the argument of the call, rbr the value add_rbr returns,
\* old the local variable of br_trill_stop, calls the number of calls made
NoThread ==
  [pc |-> "idle", val |-> 0, rbr |-> "NULL", old |-> "NULL", calls |-> 0]

\* nothing is on record and no call is in progress: a call may start
Idle == hpc = "idle" /\ cpc = NoCpc /\ last = NoLast /\ ctl = NoCtl

Init ==
  /\ trill_enabled = FALSE
  /\ br_rbr = "NULL"
  /\ rbr_alive = FALSE
  /\ nick = RBRIDGE_NICKNAME_NONE
  /\ treeroot = RBRIDGE_NICKNAME_NONE
  /\ rbr_nodes = [n \in ValidNicks |-> 0]
  /\ node = [p \in NodePtrs |-> FreeNode]
  /\ last = NoLast
  /\ ctl = NoCtl
  /\ hpc = "idle"
  /\ hl = NoHl
  /\ cpc = NoCpc
  /\ lock = "free"
  /\ peer = NoPeer
  /\ cth = [t \in Threads |-> NoThread]
  /\ rbrs = {}

\* the references held on a node beyond the one of the table slot it is in
Extra(p) == node[p].refs - (IF rbr_nodes[p[1]] = p[2] THEN 1 ELSE 0)

\* A call of the handler starts only while no reference has been leaked.
NoLeak == \A p \in NodePtrs : Extra(p) = 0

(***************************************************************************)
(* Control plane, each call in one step.                                   *)
(***************************************************************************)
\* the slot cleared and the reference of the table kept
rbr_del_node_noput(tab, nd, nickname) ==
  IF VALID_NICK(nickname) /\ tab[nickname] # 0
  THEN [tab |-> [tab EXCEPT ![nickname] = 0], node |-> nd]
  ELSE [tab |-> tab, node |-> nd]

\* rbr_del_node
rbr_del_node(tab, nd, nickname) ==
  IF VALID_NICK(nickname) /\ tab[nickname] # 0
  THEN [tab |-> [tab EXCEPT ![nickname] = 0],
        node |-> rbr_node_put(nd, <<nickname, tab[nickname]>>)]
  ELSE [tab |-> tab, node |-> nd]

\* the nicknames the loop of rbr_del_all visits
DelAllRange ==
  {i \in SampleNicks : RBRIDGE_NICKNAME_MIN <= i /\ i < RBRIDGE_NICKNAME_MAX}

\* rbr_del_all: the loop over the nicknames in s still to visit
RECURSIVE rbr_del_all(_, _, _)
rbr_del_all(tab, nd, s) ==
  IF s = {} THEN [tab |-> tab, node |-> nd]
  ELSE LET i == CHOOSE x \in s : \A y \in s : x <= y
           r == IF i \in DOMAIN tab /\ tab[i] # 0
                THEN rbr_del_node(tab, nd, i)
                ELSE [tab |-> tab, node |-> nd]
       IN  rbr_del_all(r.tab, r.node, s \ {i})

\* add_rbr and br_trill_start: add_rbr returns the state the bridge has, or
\* a fresh one (kzalloc may fail), and the bridge is enabled when there is one
BrTrillStart(alloc_ok) ==
  /\ IF br_rbr # "NULL"
     THEN /\ trill_enabled' = TRUE
          /\ UNCHANGED <<br_rbr, rbr_alive, nick, treeroot, rbr_nodes>>
     ELSE IF alloc_ok
     THEN /\ br_rbr' = "RBR"
          /\ rbr_alive' = TRUE
          /\ nick' = RBRIDGE_NICKNAME_NONE
          /\ treeroot' = RBRIDGE_NICKNAME_NONE
          /\ rbr_nodes' = [n \in ValidNicks |-> 0]
          /\ trill_enabled' = TRUE
     ELSE UNCHANGED <<trill_enabled, br_rbr, rbr_alive, nick, treeroot, rbr_nodes>>
  /\ UNCHANGED node

\* br_trill_stop
BrTrillStop ==
  /\ trill_enabled' = FALSE
  /\ br_rbr' = "NULL"
  /\ IF br_rbr # "NULL"
     THEN LET r == rbr_del_all(rbr_nodes, node, DelAllRange) IN
          /\ rbr_nodes' = r.tab
          /\ node' = r.node
          /\ rbr_alive' = FALSE
          /\ nick' = RBRIDGE_NICKNAME_NONE
          /\ treeroot' = RBRIDGE_NICKNAME_NONE
     ELSE UNCHANGED <<rbr_nodes, node, rbr_alive, nick, treeroot>>

\* br_trill_set_enabled(br, val)
BrTrillSetEnabled(val, alloc_ok) ==
  /\ Idle
  /\ IF val # 0
     THEN IF ~trill_enabled THEN BrTrillStart(alloc_ok)
          ELSE UNCHANGED <<trill_enabled, br_rbr, rbr_alive, nick, treeroot,
                           rbr_nodes, node>>
     ELSE IF trill_enabled THEN BrTrillStop
          ELSE UNCHANGED <<trill_enabled, br_rbr, rbr_alive, nick, treeroot,
                           rbr_nodes, node>>
  /\ ctl' = CtlRecord("set_enabled", val, 0)
  /\ UNCHANGED <<last, hpc, hl, cpc, lock, peer, cth, rbrs>>

ENOENT == 2

\* the nickname stored without the test that it is valid
set_treeroot_novalid(cur, t) == [treeroot |-> t, rv |-> 0]

\* set_treeroot(rbr, treeroot): the new rbr->treeroot and the value returned
set_treeroot(cur, t) ==
  IF ~VALID_NICK(t) THEN [treeroot |-> cur, rv |-> ENOENT]
  ELSE [treeroot |-> IF cur # t THEN t ELSE cur, rv |-> 0]

SetTreeroot(t) ==
  /\ Idle
  /\ br_rbr # "NULL"
  /\ treeroot' = set_treeroot(treeroot, t).treeroot
  /\ ctl' = CtlRecord("set_treeroot", t, set_treeroot(treeroot, t).rv)
  /\ UNCHANGED <<trill_enabled, br_rbr, rbr_alive, nick, rbr_nodes, node, last,
                 hpc, hl, cpc, lock, peer, cth, rbrs>>

\* the control plane sets the local nickname
SetNick(n) ==
  /\ Idle
  /\ br_rbr # "NULL"
  /\ VALID_NICK(n)
  /\ nick' = n
  /\ ctl' = CtlRecord("set_nick", n, 0)
  /\ UNCHANGED <<trill_enabled, br_rbr, rbr_alive, treeroot, rbr_nodes, node, last,
                 hpc, hl, cpc, lock, peer, cth, rbrs>>

\* The generation of a new node for nickname n.  The addresses of nodes are
\* arbitrary: the new node takes the place of the one it replaces when the
\* table holds the only reference to that one and no pointer in held points
\* to it, and else the first free place.
NewGen(n, held) ==
  IF rbr_nodes[n] # 0 /\ node[<<n, rbr_nodes[n]>>].refs = 1
     /\ <<n, rbr_nodes[n]>> \notin held
  THEN rbr_nodes[n]
  ELSE IF \E g \in Gens : node[<<n, g>>].refs = 0 /\ <<n, g>> \notin held
  THEN CHOOSE g \in Gens : /\ node[<<n, g>>].refs = 0 /\ <<n, g>> \notin held
                           /\ \A h \in Gens :
                                node[<<n, h>>].refs = 0 /\ <<n, h>> \notin held
                                  => g <= h
  ELSE 0

\* the control plane installs a descriptor: the new node is published in the
\* slot and the reference the table held on the old one is released
InstallNode(n, ni, held) ==
  LET g == NewGen(n, held)
      old == SlotPtr(rbr_nodes, n)
  IN  /\ g # 0
      /\ rbr_nodes' = [rbr_nodes EXCEPT ![n] = g]
      /\ node' = [rbr_node_put(node, old) EXCEPT ![<<n, g>>] =
                    [ni |-> ni, refs |-> 1]]

Install(n, ni) ==
  /\ Idle
  /\ br_rbr # "NULL"
  /\ VALID_NICK(n)
  /\ InstallNode(n, ni, {})
  /\ ctl' = CtlRecord("install", n, 0)
  /\ UNCHANGED <<trill_enabled, br_rbr, rbr_alive, nick, treeroot, last,
                 hpc, hl, cpc, lock, peer, cth, rbrs>>

\* the control plane evicts a neighbour: rbr_del_node
Evict(n) ==
  /\ Idle
  /\ br_rbr # "NULL"
  /\ rbr_nodes[n] # 0
  /\ LET r == rbr_del_node(rbr_nodes, node, n) IN
       /\ rbr_nodes' = r.tab
       /\ node' = r.node
  /\ ctl' = CtlRecord("evict", n, 0)
  /\ UNCHANGED <<trill_enabled, br_rbr, rbr_alive, nick, treeroot, last,
                 hpc, hl, cpc, lock, peer, cth, rbrs>>

(***************************************************************************)
(* One call of rbr_handle_frame, from entry to return.                     *)
(***************************************************************************)
HandleFrame(skb, e) ==
  /\ Idle
  /\ NoLeak
  /\ LET m == rbr_handle_frame(
                Machine(br_rbr, nick, treeroot, rbr_nodes, node), e, skb,
                trill_enabled)
     IN  /\ node' = m.node
         /\ last' = [skb |-> skb, env |-> e, ret |-> m.rv, out |-> m.out,
                     sent |-> m.sent, bufs |-> m.bufs, rx |-> m.rx, tx |-> m.tx,
                     calls |-> m.calls, learned |-> m.learned]
  /\ UNCHANGED <<trill_enabled, br_rbr, rbr_alive, nick, treeroot, rbr_nodes,
                 ctl, hpc, hl, cpc, lock, peer, cth, rbrs>>

\* The frame a neighbour RBridge receives when this bridge has sent skb to
\* it: it arrives on a fabric port of the neighbour in a buffer of its own,
\* and its outer destination, the adjsnpa this bridge holds for the
\* neighbour, is the address of the neighbour's receiving port.
Wire(skb) ==
  [skb EXCEPT !.id = "skb", !.port = "fabric", !.h_dest = "MP",
              !.encapsulation = FALSE]

\* The unicast frame the call on record has emitted for the frame of a guest
\* port reaches the RBridge it names as egress, another one than this, whose
\* rbr_handle_frame runs on it: the neighbour has TRILL enabled, the egress
\* nickname as its nickname and an empty table.
PeerReceive(fdb) ==
  /\ hpc = "idle" /\ cpc = NoCpc
  /\ peer = NoPeer
  /\ last.skb.port = "guest"
  /\ Len(last.out) = 1
  /\ last.out[1].op \in {"br_forward", "br_trill_flood_forward"}
  /\ last.out[1].skb.trh.md = 0
  /\ last.out[1].skb.trh.egress # nick
  /\ LET rx == Wire(last.out[1].skb)
         e == [DefaultEnv EXCEPT !.fdb = fdb]
         m == rbr_handle_frame(
                Machine("RBR", rx.trh.egress, RBRIDGE_NICKNAME_NONE,
                        [n \in ValidNicks |-> 0], [p \in NodePtrs |-> FreeNode]),
                e, rx, TRUE)
     IN  peer' = [nick |-> rx.trh.egress,
                  rec |-> [skb |-> rx, env |-> e, ret |-> m.rv, out |-> m.out,
                           sent |-> m.sent, bufs |-> m.bufs, rx |-> m.rx, tx |-> m.tx,
                           calls |-> m.calls, learned |-> m.learned]]
  /\ UNCHANGED <<trill_enabled, br_rbr, rbr_alive, nick, treeroot, rbr_nodes,
                 node, last, ctl, hpc, hl, cpc, lock, cth, rbrs>>

\* the call on record has been looked at; the next call may start
NextCall ==
  /\ hpc = "idle" /\ cpc = NoCpc
  /\ ~(last = NoLast /\ ctl = NoCtl)
  /\ last' = NoLast
  /\ ctl' = NoCtl
  /\ peer' = NoPeer
  /\ UNCHANGED <<trill_enabled, br_rbr, rbr_alive, nick, treeroot, rbr_nodes,
                 node, hpc, hl, cpc, lock, cth, rbrs>>

Next ==
  \/ \E val \in {0, 1}, ok \in BOOLEAN : BrTrillSetEnabled(val, ok)
  \/ \E t \in SampleNicks : SetTreeroot(t)
  \/ \E n \in ValidNicks : SetNick(n)
  \/ \E n \in ValidNicks, ni \in NiSet : Install(n, ni)
  \/ \E n \in ValidNicks : Evict(n)
  \/ \E skb \in Frames : \E e \in EnvsFor(skb) : HandleFrame(skb, e)
  \/ \E fdb \in FdbSets : PeerReceive(fdb)
  \/ NextCall

Spec == Init /\ [][Next]_vars

(***************************************************************************)
(* ConcSpec: one call of rbr_handle_frame runs step by step while the      *)
(* control plane runs.  A step of the handler is one access to memory the  *)
(* control plane writes (br->trill_enabled, br->rbr, the fields of struct  *)
(* rbr, a table slot, a reference count) and the code that follows it up   *)
(* to the next such access.  hpc says which access comes next.             *)
(***************************************************************************)
\* control-plane calls made while the handler runs
MaxCtlCalls == 2

\* the collaborators answer without failure, and the fdb resolves nothing
ConcEnv == DefaultEnv

\* the handler stops at position pc with locals h
At(pc, h) == [pc |-> pc, h |-> h]

\* the handler returns
Done(h) == At("done", [h EXCEPT !.rv = "consumed"])

\* the handler dereferences memory it must not: what follows is undefined
Fault(h, kind) == At("fault", [h EXCEPT !.fault = kind])

\* what dereferencing the pointer r to struct rbr meets
Deref(r) ==
  IF r = "NULL" THEN "null_rbr"
  ELSE IF ~rbr_alive THEN "freed_rbr"
  ELSE "ok"

\* the node pointers the handler has in its local variables
HeldPtrs ==
  {hl.dest, hl.adj, hl.src, hl.self, hl.mdest, hl.madj, hl.fadj, hl.ptr}
    \ {NULLNODE}

\* rbr_node_put on the local variables named in ps, one step each, and then
\* the code at label after
Puts(h, ps, after) == At("put", [h EXCEPT !.puts = ps, !.after = after])

RECURSIVE Resume(_, _)

\* a call of rbr_find_node(r, n) whose result goes to local variable tgt;
\* a nickname that is not valid is answered with NULL before any access
Find(h, r, n, tgt, ret) ==
  IF ~VALID_NICK(n) THEN Resume(ret, [h EXCEPT ![tgt] = NULLNODE])
  ELSE At("find_load",
          [h EXCEPT !.fr = r, !.fn = n, !.ftgt = tgt, !.fret = ret])

\* a call of rbr_fwd, up to its read of p->br->rbr
CallFwd(h, skb, adj_nick, wret) ==
  At("fwd_rbr", [Enter(h, "rbr_fwd") EXCEPT !.fskb = skb, !.fnick = adj_nick,
                                            !.wret = wret])

\* rbr_fwd from the return of rbr_find_node on
FwdCont(label, h) ==
  CASE label = "fwd_adj" ->
         IF h.fadj = NULLNODE
         THEN Resume(h.wret, kfree_skb([h EXCEPT !.tx = @ + 1], h.fskb))
         ELSE Puts([h EXCEPT !.fskb = FwdRewrite(@, node[h.fadj].ni.adjsnpa)],
                   <<"fadj">>, "fwd_finish")
    [] label = "fwd_finish" ->
         Resume(h.wret, [rbr_fwd_finish(h, ConcEnv, h.fskb)
                           EXCEPT !.sent = Append(@, h.fnick)])

\* a call of rbr_multidest_fwd, up to its read of p->br->rbr
CallMd(h, skb, egressnick, ingressnick, saddr, free, mret) ==
  At("md_rbr", [Enter(h, "rbr_multidest_fwd") EXCEPT
                  !.msk = skb, !.megress = egressnick,
                  !.mingress = ingressnick, !.msaddr = saddr, !.mfree = free,
                  !.mret = mret, !.sv = 0, !.i = 0])

\* rbr_multidest_fwd from its read of p->br->rbr on
MdCont(label, h) ==
  CASE label = "md_start" ->
         IF h.mrbr = "NULL"
         THEN Resume(h.mret, multidest_fwd_fail(h, h.msk))
         ELSE Find(h, h.mrbr, h.megress, "mdest", "md_dest")
    [] label = "md_dest" ->
         IF h.mdest = NULLNODE
         THEN Resume(h.mret, multidest_fwd_fail(h, h.msk))
         ELSE Resume("md_loop", [h EXCEPT !.i = 1])
    [] label = "md_loop" ->
         LET adjs == node[h.mdest].ni.adjs IN
         IF h.i > Len(adjs) THEN Puts(h, <<"mdest">>, "md_end")
         ELSE IF SkipAdjNick(adjs[h.i], h.mingress)
         THEN Resume("md_loop", [h EXCEPT !.i = @ + 1])
         ELSE Find(h, h.mrbr, adjs[h.i], "madj", "md_adj")
    [] label = "md_adj" ->
         LET adjnick == node[h.mdest].ni.adjs[h.i] IN
         IF h.madj = NULLNODE
         THEN Resume("md_loop", [h EXCEPT !.i = @ + 1])
         ELSE IF PruneLink(node[h.madj].ni.adjsnpa, h.msaddr)
         THEN Puts([h EXCEPT !.i = @ + 1], <<"madj">>, "md_loop")
         ELSE IF h.sv = 0 /\ h.mfree
         THEN Puts([h EXCEPT !.i = @ + 1, !.sv = adjnick], <<"madj">>,
                   "md_loop")
         ELSE IF ConcEnv.copy_fail = h.i
         THEN Resume(h.mret,
                     multidest_fwd_fail([h EXCEPT !.tx = @ + 1], h.msk))
         ELSE LET skb2 == [h.msk EXCEPT !.id = CopyIds[h.i]] IN
              CallFwd(NewBuf(h, h.msk, skb2.id), skb2, adjnick, "md_copied")
    [] label = "md_copied" ->
         Puts([h EXCEPT !.i = @ + 1], <<"madj">>, "md_loop")
    [] label = "md_end" ->
         IF h.sv # 0 THEN CallFwd(h, h.msk, h.sv, "md_return")
         ELSE Resume(h.mret, [kfree_skb(h, h.msk) EXCEPT !.rv = "ok"])
    [] label = "md_return" ->
         Resume(h.mret, [h EXCEPT !.rv = "ok"])

\* rbr_recv from its read of p->br->rbr on
RecvCont(label, h) ==
  LET skb == [h.skb EXCEPT !.encapsulation = TRUE]
      trh == h.skb.trh
  IN
  CASE label = "recv_start" ->
         IF OuterDestMismatch(h.skb) THEN Done(recv_drop(h, h.skb))
         ELSE IF HeaderCheck(h.skb, ConcEnv) # "ok"
         THEN Done(recv_drop(h, h.skb))
         ELSE At("recv_nick", h)
    [] label = "recv_checks" ->
         IF LoopingBack(trh, h.nick) THEN Done(recv_drop(h, h.skb))
         ELSE IF trh.optlen # 0 THEN Done(recv_drop(h, h.skb))
         ELSE IF trh.md = 0
         THEN CASE UnicastVerdict(trh, h.nick) = "decaps" ->
                     Done(rbr_decaps(h, ConcEnv, skb))
                [] UnicastVerdict(trh, h.nick) = "fwd" ->
                     CallFwd(br_fdb_update(h, h.skb.h_source, "vid10",
                                           RBRIDGE_NICKNAME_NONE),
                             skb, trh.egress, "recv_return")
                [] OTHER -> Done(recv_drop(h, h.skb))
         ELSE Find(h, h.rbr, trh.egress, "dest", "recv_dest")
    [] label = "recv_dest" ->
         IF h.dest = NULLNODE THEN Done(recv_drop(h, skb))
         ELSE Resume("recv_adjloop", [h EXCEPT !.idx = 1])
    [] label = "recv_adjloop" ->
         LET adjs == node[h.dest].ni.adjs IN
         IF h.idx > Len(adjs) THEN Puts(h, <<"dest">>, "recv_drop")
         ELSE Find(h, h.rbr, adjs[h.idx], "adj", "recv_adj")
    [] label = "recv_adj" ->
         IF h.adj = NULLNODE
         THEN Resume("recv_adjloop", [h EXCEPT !.idx = @ + 1])
         ELSE IF node[h.adj].ni.adjsnpa = h.skb.h_source
         THEN Puts(h, <<"adj">>, "recv_src")
         ELSE Puts([h EXCEPT !.idx = @ + 1], <<"adj">>, "recv_adjloop")
    [] label = "recv_src" ->
         Find(h, h.rbr, trh.ingress, "src", "recv_rpf")
    [] label = "recv_rpf" ->
         IF h.src = NULLNODE THEN Puts(h, <<"dest">>, "recv_drop")
         ELSE IF ~RpfAccepts(node[h.src].ni, trh.egress, h.treeroot)
         THEN Puts(h, <<"src", "dest">>, "recv_drop")
         ELSE IF MdHopExpired(trh) THEN Puts(h, <<"dest">>, "recv_drop")
         ELSE Puts(h, <<"src", "dest">>, "recv_clone")
    [] label = "recv_clone" ->
         IF ~ConcEnv.clone_ok
         THEN Done(recv_drop([h EXCEPT !.tx = @ + 1], skb))
         ELSE CallMd(NewBuf(h, skb, "skb2"), [skb EXCEPT !.id = "skb2"],
                     trh.egress, trh.ingress, h.skb.h_source, FALSE,
                     "recv_replicated")
    [] label = "recv_replicated" ->
         IF h.rv = "fail" THEN Done(recv_drop(h, skb))
         ELSE Done(rbr_decaps(h, ConcEnv, skb))
    [] label = "recv_drop" -> Done(recv_drop(h, skb))
    [] label = "recv_return" -> Done(h)

\* rbr_encaps_prepare from its read of p->br->rbr on
EncCont(label, h) ==
  CASE label = "enc_start" ->
         IF h.nfm # RBRIDGE_NICKNAME_NONE /\ ~VALID_NICK(h.nfm)
         THEN Done(encaps_drop(h, h.skb))
         ELSE At("enc_nick", h)
    [] label = "enc_checks" ->
         IF ~VALID_NICK(h.nick) THEN Done(encaps_drop(h, h.skb))
         ELSE IF h.nfm = RBRIDGE_NICKNAME_NONE
         THEN Find(h, h.rbr, h.nick, "self", "enc_self")
         ELSE LET r == rbr_encaps(h, ConcEnv, h.skb, h.nick, h.nfm, FALSE) IN
              IF r.failed THEN Done(encaps_drop(r.m, h.skb))
              ELSE CallFwd(r.m, r.skb, h.nfm, "enc_return")
    [] label = "enc_self" ->
         IF h.self = NULLNODE THEN Done(encaps_drop(h, h.skb))
         ELSE IF Len(node[h.self].ni.dtroots) > 0
         THEN Puts([h EXCEPT !.treeroot = node[h.self].ni.dtroots[1]],
                   <<"self">>, "enc_flood")
         ELSE At("enc_treeroot", h)
    [] label = "enc_flood" ->
         IF ~VALID_NICK(h.treeroot) THEN Done(encaps_drop(h, h.skb))
         ELSE IF ~ConcEnv.clone_ok
         THEN Done(encaps_drop([h EXCEPT !.tx = @ + 1], h.skb))
         ELSE LET skb2 == [h.skb EXCEPT !.id = "skb2"]
                  h3 == HandOff(NewBuf(h, h.skb, "skb2"),
                                "br_endstation_deliver", skb2)
                  r == rbr_encaps(h3, ConcEnv, h.skb, h.nick, h.treeroot, TRUE)
              IN  IF r.failed THEN Done(encaps_drop(r.m, h.skb))
                  ELSE CallMd(r.m, r.skb, h.treeroot, h.nick, "NULL", TRUE,
                              "enc_return")
    [] label = "enc_return" -> Done(h)

\* the code at a label
Resume(label, h) ==
  IF label \in {"fwd_adj", "fwd_finish"} THEN FwdCont(label, h)
  ELSE IF label \in {"md_start", "md_dest", "md_loop", "md_adj", "md_copied",
                     "md_end", "md_return"}
  THEN MdCont(label, h)
  ELSE IF label \in {"enc_start", "enc_checks", "enc_self", "enc_flood",
                     "enc_return"}
  THEN EncCont(label, h)
  ELSE RecvCont(label, h)

\* the frames ConcSpec offers the handler: well-formed TRILL frames with a
\* hop left that neighbour MB sends for ingress nickname 2, and an
\* end-station frame on a guest port; all pass the tests rbr_handle_frame
\* makes before it calls rbr_recv or rbr_encaps_prepare
ConcFrames ==
  { TrillSkb("MP", "MB", h, FALSE) :
      h \in {g \in GoodHdrs : g.hop = 1 /\ g.ingress = 2} } \cup
  { f \in GuestFrames : f.vlan_tci = "none" }

\* the nickname get_nick_from_mac answers for a guest frame
ConcNicks(skb) ==
  IF skb.port = "guest" THEN {RBRIDGE_NICKNAME_NONE, 2}
  ELSE {RBRIDGE_NICKNAME_NONE}

\* the descriptor of neighbour 2 in the initial states of ConcSpec
ConcNi2 == [adjsnpa |-> "MB", adjs |-> <<1, 2>>, dtroots |-> <<>>]

\* ConcSpec starts on an enabled bridge with tree root 1 and a node for
\* each nickname, states Spec reaches
ConcInit ==
  /\ trill_enabled = TRUE
  /\ br_rbr = "RBR"
  /\ rbr_alive = TRUE
  /\ nick \in {RBRIDGE_NICKNAME_NONE, 1}
  /\ treeroot = 1
  /\ rbr_nodes = [n \in ValidNicks |-> 1]
  /\ \E ni \in NiSet :
       node = [p \in NodePtrs |->
                 IF p = <<1, 1>> THEN [ni |-> ni, refs |-> 1]
                 ELSE IF p = <<2, 1>> THEN [ni |-> ConcNi2, refs |-> 1]
                 ELSE FreeNode]
  /\ last = NoLast
  /\ ctl = NoCtl
  /\ hpc = "idle"
  /\ hl = NoHl
  /\ cpc = NoCpc
  /\ lock = "free"
  /\ peer = NoPeer
  /\ cth = [t \in Threads |-> NoThread]
  /\ rbrs = {}

\* rbr_handle_frame up to the call of rbr_recv or rbr_encaps_prepare: it
\* reads br->trill_enabled
HEnter(skb, nfm) ==
  /\ hpc = "idle"
  /\ LET h0 == [NoHl EXCEPT !.skb = skb, !.nfm = nfm]
         r == IF ~trill_enabled
              THEN At("done", [HandOff(h0, "br_handle_frame", skb)
                                 EXCEPT !.rv = "bridge"])
              ELSE IF skb.port = "guest"
              THEN At("enc_rbr",
                      Enter(br_fdb_update(h0, skb.h_source, "vid10",
                                          RBRIDGE_NICKNAME_NONE),
                            "rbr_encaps_prepare"))
              ELSE At("recv_rbr", Enter(h0, "rbr_recv"))
     IN  hpc' = r.pc /\ hl' = r.h
  /\ UNCHANGED <<trill_enabled, br_rbr, rbr_alive, nick, treeroot, rbr_nodes,
                 node, last, ctl, cpc, lock, peer, cth, rbrs>>

\* the handler reads p->br->rbr, in rbr_recv, rbr_encaps_prepare,
\* rbr_multidest_fwd or rbr_fwd
HReadRbr ==
  /\ hpc \in {"recv_rbr", "enc_rbr", "md_rbr", "fwd_rbr"}
  /\ LET r == CASE hpc = "recv_rbr" ->
                     Resume("recv_start", [hl EXCEPT !.rbr = br_rbr])
                [] hpc = "enc_rbr" ->
                     Resume("enc_start", [hl EXCEPT !.rbr = br_rbr])
                [] hpc = "md_rbr" ->
                     Resume("md_start", [hl EXCEPT !.mrbr = br_rbr])
                [] hpc = "fwd_rbr" ->
                     Find([hl EXCEPT !.frbr = br_rbr], br_rbr, hl.fnick,
                          "fadj", "fwd_adj")
     IN  hpc' = r.pc /\ hl' = r.h
  /\ UNCHANGED <<trill_enabled, br_rbr, rbr_alive, nick, treeroot, rbr_nodes,
                 node, last, ctl, cpc, lock, peer, cth, rbrs>>

\* the handler reads rbr->nick and rbr->treeroot through its pointer
HReadFields ==
  /\ hpc \in {"recv_nick", "enc_nick", "enc_treeroot"}
  /\ LET r == IF Deref(hl.rbr) # "ok" THEN Fault(hl, Deref(hl.rbr))
              ELSE CASE hpc = "recv_nick" ->
                          Resume("recv_checks",
                                 [hl EXCEPT !.nick = nick,
                                            !.treeroot = treeroot])
                     [] hpc = "enc_nick" ->
                          Resume("enc_checks", [hl EXCEPT !.nick = nick])
                     [] hpc = "enc_treeroot" ->
                          Puts([hl EXCEPT !.treeroot = treeroot], <<"self">>,
                               "enc_flood")
     IN  hpc' = r.pc /\ hl' = r.h
  /\ UNCHANGED <<trill_enabled, br_rbr, rbr_alive, nick, treeroot, rbr_nodes,
                 node, last, ctl, cpc, lock, peer, cth, rbrs>>

\* rbr_find_node: rcu_dereference(rbr->rbr_nodes[nickname])
HFindLoad ==
  /\ hpc = "find_load"
  /\ LET ptr == SlotPtr(rbr_nodes, hl.fn)
         r == IF Deref(hl.fr) # "ok" THEN Fault(hl, Deref(hl.fr))
              ELSE IF ptr = NULLNODE
              THEN Resume(hl.fret, [hl EXCEPT ![hl.ftgt] = NULLNODE])
              ELSE At("find_get", [hl EXCEPT !.ptr = ptr])
     IN  hpc' = r.pc /\ hl' = r.h
  /\ UNCHANGED <<trill_enabled, br_rbr, rbr_alive, nick, treeroot, rbr_nodes,
                 node, last, ctl, cpc, lock, peer, cth, rbrs>>

\* rbr_find_node: rbr_node_get on the pointer loaded, which is returned.
\* The increment of a node that has been destroyed writes to freed memory.
HFindGet ==
  /\ hpc = "find_get"
  /\ LET h1 == [hl EXCEPT ![hl.ftgt] = hl.ptr, !.ptr = NULLNODE]
         r == IF node[hl.ptr].refs = 0 THEN Fault(h1, "freed_node")
              ELSE Resume(hl.fret, h1)
     IN  /\ hpc' = r.pc /\ hl' = r.h
         /\ node' = IF node[hl.ptr].refs = 0 THEN node
                    ELSE rbr_node_get(node, hl.ptr)
  /\ UNCHANGED <<trill_enabled, br_rbr, rbr_alive, nick, treeroot, rbr_nodes,
                 last, ctl, cpc, lock, peer, cth, rbrs>>

\* rbr_node_put on the next local variable to release
HPut ==
  /\ hpc = "put"
  /\ LET f == Head(hl.puts)
         h1 == [hl EXCEPT ![f] = NULLNODE, !.puts = Tail(@)]
         r == IF h1.puts = <<>> THEN Resume(hl.after, h1) ELSE At("put", h1)
     IN  /\ hpc' = r.pc /\ hl' = r.h
         /\ node' = rbr_node_put(node, hl[f])
  /\ UNCHANGED <<trill_enabled, br_rbr, rbr_alive, nick, treeroot, rbr_nodes,
                 last, ctl, cpc, lock, peer, cth, rbrs>>

\* a control-plane call may start: none is in progress, the bound is not
\* reached and the handler has not returned
CanCall ==
  /\ cpc.pc = "idle" /\ cpc.calls < MaxCtlCalls
  /\ hpc \notin {"done", "fault"}

\* the control plane installs a descriptor while the handler may be running
CInstall(n, ni) ==
  /\ CanCall
  /\ br_rbr # "NULL"
  /\ InstallNode(n, ni, HeldPtrs)
  /\ cpc' = [cpc EXCEPT !.ops = @ \cup {"install"}, !.calls = @ + 1]
  /\ UNCHANGED <<trill_enabled, br_rbr, rbr_alive, nick, treeroot, last, ctl,
                 hpc, hl, lock, peer, cth, rbrs>>

\* the control plane evicts a neighbour while the handler may be running
CEvict(n) ==
  /\ CanCall
  /\ br_rbr # "NULL"
  /\ rbr_nodes[n] # 0
  /\ LET r == rbr_del_node(rbr_nodes, node, n) IN
       /\ rbr_nodes' = r.tab
       /\ node' = r.node
  /\ cpc' = [cpc EXCEPT !.ops = @ \cup {"evict"}, !.calls = @ + 1]
  /\ UNCHANGED <<trill_enabled, br_rbr, rbr_alive, nick, treeroot, last, ctl,
                 hpc, hl, lock, peer, cth, rbrs>>

\* br_trill_set_enabled(br, 0) and br_trill_stop: trill_enabled is cleared
\* under the lock
CStopClear ==
  /\ CanCall
  /\ trill_enabled
  /\ trill_enabled' = FALSE
  /\ cpc' = [cpc EXCEPT !.pc = "stop_detach", !.ops = @ \cup {"stop"},
                        !.calls = @ + 1]
  /\ UNCHANGED <<br_rbr, rbr_alive, nick, treeroot, rbr_nodes, node, last, ctl,
                 hpc, hl, lock, peer, cth, rbrs>>

\* br_trill_stop: old = br->rbr; br->rbr = NULL, outside the lock
CStopDetach ==
  /\ cpc.pc = "stop_detach"
  /\ br_rbr' = "NULL"
  /\ cpc' = [cpc EXCEPT !.old = br_rbr,
                        !.pc = IF br_rbr = "NULL" THEN "idle"
                               ELSE "stop_delall"]
  /\ UNCHANGED <<trill_enabled, rbr_alive, nick, treeroot, rbr_nodes, node,
                 last, ctl, hpc, hl, lock, peer, cth, rbrs>>

\* br_trill_stop: the lock is taken and rbr_del_all(old) runs
CStopDelAll ==
  /\ cpc.pc = "stop_delall"
  /\ lock = "free"
  /\ lock' = "ctl"
  /\ LET r == rbr_del_all(rbr_nodes, node, DelAllRange) IN
       /\ rbr_nodes' = r.tab
       /\ node' = r.node
  /\ cpc' = [cpc EXCEPT !.pc = "stop_free"]
  /\ UNCHANGED <<trill_enabled, br_rbr, rbr_alive, nick, treeroot, last, ctl,
                 hpc, hl, peer, cth, rbrs>>

\* br_trill_stop: kfree(old), and the lock is released
CStopFree ==
  /\ cpc.pc = "stop_free"
  /\ rbr_alive' = FALSE
  /\ nick' = RBRIDGE_NICKNAME_NONE
  /\ treeroot' = RBRIDGE_NICKNAME_NONE
  /\ lock' = "free"
  /\ cpc' = [cpc EXCEPT !.pc = "idle", !.old = "NULL"]
  /\ UNCHANGED <<trill_enabled, br_rbr, rbr_nodes, node, last, ctl, hpc, hl,
                 peer, cth, rbrs>>

ConcNext ==
  \/ \E skb \in ConcFrames : \E nfm \in ConcNicks(skb) : HEnter(skb, nfm)
  \/ HReadRbr
  \/ HReadFields
  \/ HFindLoad
  \/ HFindGet
  \/ HPut
  \/ \E n \in ValidNicks, ni \in NiSet : CInstall(n, ni)
  \/ \E n \in ValidNicks : CEvict(n)
  \/ CStopClear
  \/ CStopDetach
  \/ CStopDelAll
  \/ CStopFree

ConcSpec == ConcInit /\ [][ConcNext]_vars

(***************************************************************************)
(* CtlSpec: two threads call br_trill_set_enabled at the same time.  A     *)
(* step of a thread is one access to br->trill_enabled, br->rbr or         *)
(* br->lock and the code that follows it up to the next such access; a     *)
(* critical section is two steps, spin_lock_bh and the rest.  No neighbour *)
(* is installed, so rbr_del_all finds every table empty.                   *)
(***************************************************************************)
\* calls of br_trill_set_enabled one thread makes
MaxSetCalls == 2

\* the addresses kzalloc returns for a struct rbr
RbrAddrs == {"RBR", "RBR2"}

\* what the threads of CtlSpec leave alone
DataPlane ==
  <<rbr_alive, nick, treeroot, rbr_nodes, node, last, ctl, hpc, hl, cpc, peer>>

\* thread t is at position pc, with locals r
Goto(t, pc, r) == cth' = [cth EXCEPT ![t] = [r EXCEPT !.pc = pc]]

\* thread t returns from br_trill_set_enabled
Return(t) ==
  cth' = [cth EXCEPT ![t] = [NoThread EXCEPT !.calls = cth[t].calls]]

\* br_trill_set_enabled(br, val): br->trill_enabled is read without the lock
TCall(t, val) ==
  /\ cth[t].pc = "idle"
  /\ cth[t].calls < MaxSetCalls
  /\ LET r == [cth[t] EXCEPT !.val = val, !.calls = @ + 1] IN
       IF val # 0
       THEN Goto(t, IF ~trill_enabled THEN "add_rbr" ELSE "idle", r)
       ELSE Goto(t, IF trill_enabled THEN "stop_lock" ELSE "idle", r)
  /\ UNCHANGED <<trill_enabled, br_rbr, lock, rbrs, DataPlane>>

\* add_rbr: br->rbr is read, and when it is NULL kzalloc answers with a, an
\* address not in use or NULL
TAddRbr(t, a) ==
  /\ cth[t].pc = "add_rbr"
  /\ IF br_rbr = "NULL"
     THEN /\ a = "NULL" \/ a \notin rbrs
          /\ rbrs' = IF a = "NULL" THEN rbrs ELSE rbrs \cup {a}
          /\ Goto(t, "attach", [cth[t] EXCEPT !.rbr = a])
     ELSE /\ a = "NULL"
          /\ rbrs' = rbrs
          /\ Goto(t, "add_ret", cth[t])
  /\ UNCHANGED <<trill_enabled, br_rbr, lock, DataPlane>>

\* add_rbr: return br->rbr
TAddRet(t) ==
  /\ cth[t].pc = "add_ret"
  /\ Goto(t, "attach", [cth[t] EXCEPT !.rbr = br_rbr])
  /\ UNCHANGED <<trill_enabled, br_rbr, lock, rbrs, DataPlane>>

\* br_trill_start: br->rbr = add_rbr(br), without the lock
TAttach(t) ==
  /\ cth[t].pc = "attach"
  /\ br_rbr' = cth[t].rbr
  /\ Goto(t, "start_test", cth[t])
  /\ UNCHANGED <<trill_enabled, lock, rbrs, DataPlane>>

\* br_trill_start: if (br->rbr)
TStartTest(t) ==
  /\ cth[t].pc = "start_test"
  /\ IF br_rbr # "NULL" THEN Goto(t, "start_lock", cth[t]) ELSE Return(t)
  /\ UNCHANGED <<trill_enabled, br_rbr, lock, rbrs, DataPlane>>

\* spin_lock_bh(&br->lock)
TLock(t) ==
  /\ cth[t].pc \in {"start_lock", "stop_lock", "free_lock"}
  /\ lock = "free"
  /\ lock' = "ctl"
  /\ Goto(t, CASE cth[t].pc = "start_lock" -> "start_set"
               [] cth[t].pc = "stop_lock" -> "stop_clear"
               [] cth[t].pc = "free_lock" -> "stop_free", cth[t])
  /\ UNCHANGED <<trill_enabled, br_rbr, rbrs, DataPlane>>

\* br_trill_start: br->trill_enabled = BR_TRILL, and the lock is released
TStartEnable(t) ==
  /\ cth[t].pc = "start_set"
  /\ trill_enabled' = TRUE
  /\ lock' = "free"
  /\ Return(t)
  /\ UNCHANGED <<br_rbr, rbrs, DataPlane>>

\* br_trill_stop: br->trill_enabled = BR_NO_TRILL, and the lock is released
TStopClear(t) ==
  /\ cth[t].pc = "stop_clear"
  /\ trill_enabled' = FALSE
  /\ lock' = "free"
  /\ Goto(t, "stop_read", cth[t])
  /\ UNCHANGED <<br_rbr, rbrs, DataPlane>>

\* br_trill_stop: old = br->rbr, without the lock
TStopRead(t) ==
  /\ cth[t].pc = "stop_read"
  /\ Goto(t, "stop_detach", [cth[t] EXCEPT !.old = br_rbr])
  /\ UNCHANGED <<trill_enabled, br_rbr, lock, rbrs, DataPlane>>

\* br_trill_stop: br->rbr = NULL, without the lock, and the test of old
TStopDetach(t) ==
  /\ cth[t].pc = "stop_detach"
  /\ br_rbr' = "NULL"
  /\ IF cth[t].old # "NULL" THEN Goto(t, "free_lock", cth[t]) ELSE Return(t)
  /\ UNCHANGED <<trill_enabled, lock, rbrs, DataPlane>>

\* br_trill_stop: rbr_del_all(old), kfree(old), and the lock is released.
\* When old has been freed already the thread reads and frees memory that
\* is not allocated: what follows is undefined, and the thread stops.
TStopFree(t) ==
  /\ cth[t].pc = "stop_free"
  /\ IF cth[t].old \in rbrs
     THEN /\ rbrs' = rbrs \ {cth[t].old}
          /\ lock' = "free"
          /\ Return(t)
     ELSE /\ Goto(t, "fault", cth[t])
          /\ UNCHANGED <<rbrs, lock>>
  /\ UNCHANGED <<trill_enabled, br_rbr, DataPlane>>

CtlNext ==
  \/ \E t \in Threads, val \in {0, 1} : TCall(t, val)
  \/ \E t \in Threads, a \in RbrAddrs \cup {"NULL"} : TAddRbr(t, a)
  \/ \E t \in Threads : TAddRet(t)
  \/ \E t \in Threads : TAttach(t)
  \/ \E t \in Threads : TStartTest(t)
  \/ \E t \in Threads : TLock(t)
  \/ \E t \in Threads : TStartEnable(t)
  \/ \E t \in Threads : TStopClear(t)
  \/ \E t \in Threads : TStopRead(t)
  \/ \E t \in Threads : TStopDetach(t)
  \/ \E t \in Threads : TStopFree(t)

CtlSpec == Init /\ [][CtlNext]_vars

(***************************************************************************)
(* Properties of a handler that runs while the control plane runs.         *)
(***************************************************************************)
\* the node pointers rbr_find_node has returned to the handler and the
\* handler has not released
Handles ==
  {hl.dest, hl.adj, hl.src, hl.self, hl.mdest, hl.madj, hl.fadj} \ {NULLNODE}

\* C5: of the copies the Replicator emits for a multi-destination frame that
\* arrived with outer source address S and ingress nickname I, none has
\* outer destination S and none is forwarded to the adjacency with nickname
\* I, also when neighbours are installed and evicted while
\* rbr_multidest_fwd runs.
C5_MultidestPruning ==
  (hl.skb.port = "fabric" /\ hl.skb.trh.md = 1
     /\ cpc.ops \subseteq {"install", "evict"}) =>
     /\ \A k \in 1..Len(hl.out) :
          hl.out[k].op \in {"br_forward", "br_trill_flood_forward"} =>
             hl.out[k].skb.h_dest # hl.skb.h_source
     /\ \A k \in 1..Len(hl.sent) : hl.sent[k] # hl.skb.trh.ingress

\* C7: a handler that has passed the test of trill_enabled dereferences no
\* detached or destroyed struct rbr and uses no destroyed neighbour node,
\* whatever steps of br_trill_stop run in between.
C7_StopSafe ==
  cpc.ops \subseteq {"stop"} => hl.fault = "none"

\* C8: a node in a table slot has a reference count of at least 1, and a
\* node rbr_find_node has returned to a reader is not destroyed before the
\* reader releases it, whatever evictions run between the load of the slot
\* and the increment.
C8_NodeLifetime ==
  cpc.ops \subseteq {"evict"} =>
     /\ \A n \in ValidNicks :
          rbr_nodes[n] # 0 => node[<<n, rbr_nodes[n]>>].refs >= 1
     /\ \A p \in Handles : node[p].refs >= 1

(***************************************************************************)
(* Properties of one call of the handler, read off the record of the call. *)
(***************************************************************************)
\* the call on record entered rbr_recv
RecvCalled == "rbr_recv" \in last.calls

\* the call on record dropped its frame in rbr_recv: nothing was emitted,
\* the buffer was freed once and the frame was consumed
RecvDropped ==
  /\ last.calls \cap {"rbr_fwd", "rbr_multidest_fwd", "rbr_decaps"} = {}
  /\ last.out = <<>>
  /\ last.bufs = ("skb" :> <<"freed">>)
  /\ last.ret = "consumed"

\* the frame on record passes every check rbr_recv makes before it looks at
\* the nicknames
Validated == RecvCalled /\ WellFormed(last.skb) /\ last.env.pull_ok

\* the node the table holds for nickname n
TableNode(n) == node[<<n, rbr_nodes[n]>>]

\* C1: a TRILL frame received on a fabric port whose ingress nickname is the
\* local nickname is dropped by rbr_recv, whatever its kind, hop count and
\* egress nickname: rbr_fwd, rbr_multidest_fwd and rbr_decaps are not entered.
C1_LoopGuard ==
  (RecvCalled /\ last.skb.trh.ingress = nick) => RecvDropped

\* a frame from the local nickname that is well formed, has a hop left and
\* names an egress the table knows has been received
C1_Witness ==
  /\ Validated /\ last.skb.trh.ingress = nick
  /\ last.skb.trh.md = 0 /\ last.skb.trh.hop = 1
  /\ last.skb.trh.egress # nick /\ rbr_nodes[last.skb.trh.egress] # 0
  /\ RecvDropped

\* C2: a TRILL frame received on a fabric port whose outer destination is
\* not the address of the receiving port is dropped by rbr_recv whatever its
\* TRILL header holds, and without the header being pulled.
C2_OuterMacDrop ==
  (RecvCalled /\ last.skb.h_dest # "MP") =>
     RecvDropped /\ last.rx = 1 /\ last.learned = {}

\* a frame for another station that is otherwise well formed and would have
\* been forwarded has been received
C2_Witness ==
  /\ RecvCalled /\ last.skb.h_dest = "MX"
  /\ WellFormed([last.skb EXCEPT !.h_dest = "MP"])
  /\ last.skb.trh.md = 0 /\ last.skb.trh.hop = 1
  /\ VALID_NICK(nick) /\ last.skb.trh.ingress # nick
  /\ last.skb.trh.egress # nick /\ rbr_nodes[last.skb.trh.egress] # 0
  /\ RecvDropped

\* C3: a unicast frame that passes the checks of the receive path, does not
\* come from the local nickname and names the local nickname as egress is
\* decapsulated and not forwarded, for every hop count: the inner frame is
\* handed to a delivery primitive.
C3_UnicastLocalDecaps ==
  (Validated /\ last.skb.trh.md = 0 /\ last.skb.trh.ingress # nick
     /\ last.skb.trh.egress = nick) =>
     /\ "rbr_decaps" \in last.calls
     /\ "rbr_fwd" \notin last.calls
     /\ Len(last.out) = 1
     /\ last.out[1].op \in {"br_deliver", "br_endstation_deliver"}
     /\ last.out[1].skb.h_dest = last.skb.inner.h_dest
     /\ last.out[1].skb.h_source = last.skb.inner.h_source
     /\ last.out[1].skb.trh = NoTrh
     /\ last.bufs = ("skb" :> <<last.out[1].op>>)

\* a frame for the local nickname with hop count 0 has been decapsulated
C3_Witness ==
  /\ Validated /\ last.skb.trh.md = 0 /\ last.skb.trh.ingress # nick
  /\ last.skb.trh.egress = nick /\ last.skb.trh.hop = 0
  /\ "rbr_decaps" \in last.calls

\* the call on record is a unicast transit frame the Forwarder emitted
TransitEmitted ==
  /\ RecvCalled /\ last.skb.trh.md = 0
  /\ "rbr_fwd" \in last.calls /\ last.out # <<>>

\* C4: the frame the Forwarder emits for a unicast transit frame toward
\* egress nickname E has the hop count less one, the adjsnpa of the table
\* entry of E as outer destination, and as outer source the address of the
\* bridge, or of the port the fdb resolves the destination to; the nicknames
\* and the inner frame are those received.
C4_FwdEmission ==
  TransitEmitted =>
    LET o == last.out[1]
        E == last.skb.trh.egress
    IN  /\ Len(last.out) = 1
        /\ o.op \in {"br_forward", "br_trill_flood_forward"}
        /\ o.skb.trh = [last.skb.trh EXCEPT !.hop = last.skb.trh.hop - 1]
        /\ rbr_nodes[E] # 0
        /\ o.skb.h_dest = TableNode(E).ni.adjsnpa
        /\ (o.op = "br_forward") = (TableNode(E).ni.adjsnpa \in last.env.fdb)
        /\ o.skb.h_source = (IF o.op = "br_forward" THEN "MQ" ELSE "MR")
        /\ o.skb.inner = last.skb.inner
        /\ o.skb.h_proto = "TRILL"

\* a transit frame has been emitted through the port the fdb resolved
C4_Witness ==
  /\ TransitEmitted /\ last.out[1].op = "br_forward"
  /\ last.skb.trh.hop = MaxHop

\* C6: when the handler returns "consumed", the buffer it was given and
\* every clone and copy made of it has met exactly one end (freed, or handed
\* to one primitive); a unicast TRILL frame has one outcome and a
\* multi-destination frame at least one; when the handler returns "pass" the
\* buffer has met no end.
C6_BufferConservation ==
  /\ last.ret = "consumed" =>
       /\ \A b \in DOMAIN last.bufs : Len(last.bufs[b]) = 1
       /\ (RecvCalled /\ last.skb.trh.md = 0) => DOMAIN last.bufs = {"skb"}
  /\ last.ret = "pass" => (last.bufs = ("skb" :> <<>>) /\ last.out = <<>>)

\* C9: once br_trill_set_enabled(br, 0) has returned on an enabled bridge,
\* the bridge is disabled and has no RBridge state attached, the state is
\* destroyed, every slot is empty, and every node that was in a slot has one
\* reference less than before while every other node has those it had.
C9_DisableLeavesNothing ==
  (ctl.op = "set_enabled" /\ ctl.arg = 0 /\ ctl.was_enabled) =>
     /\ ~trill_enabled /\ br_rbr = "NULL" /\ ~rbr_alive
     /\ \A n \in ValidNicks : rbr_nodes[n] = 0
     /\ \A p \in NodePtrs :
          node[p].refs = ctl.pre_refs[p] -
                           (IF ctl.pre_tab[p[1]] = p[2] THEN 1 ELSE 0)
     /\ \A p \in NodePtrs :
          (ctl.pre_tab[p[1]] = p[2] /\ ctl.pre_refs[p] = 1) =>
             node[p] = FreeNode

\* a bridge whose table held a node for every nickname has been disabled
C9_Witness ==
  /\ ctl.op = "set_enabled" /\ ctl.arg = 0 /\ ctl.was_enabled
  /\ \A n \in ValidNicks : ctl.pre_tab[n] # 0
  /\ \A n \in ValidNicks : rbr_nodes[n] = 0

\* the call on record is a unicast frame with hop count 1 that passes the
\* checks of the receive path and is in transit
HopOneTransit ==
  /\ Validated /\ last.skb.trh.md = 0 /\ last.skb.trh.hop = 1
  /\ last.skb.trh.ingress # nick
  /\ last.skb.trh.egress \notin {nick, last.skb.trh.ingress}

\* the same frame for the local nickname
HopOneLocal ==
  /\ Validated /\ last.skb.trh.md = 0 /\ last.skb.trh.hop = 1
  /\ last.skb.trh.ingress # nick /\ last.skb.trh.egress = nick

\* C10 as claimed: a unicast transit frame arriving with hop count 1 is
\* dropped and not forwarded, and one for the local nickname is decapsulated.
C10_HopOneTransitDropped ==
  /\ HopOneTransit => (last.out = <<>> /\ last.bufs = ("skb" :> <<"freed">>))
  /\ HopOneLocal => "rbr_decaps" \in last.calls

\* C10 as amended: a unicast transit frame arriving with hop count 1 is
\* handed to the Forwarder, which emits it with hop count 0 when the table
\* has an entry for the egress nickname and drops it when it has none; one
\* for the local nickname is decapsulated.
C10_HopOneForwarded ==
  /\ HopOneTransit =>
       /\ "rbr_fwd" \in last.calls
       /\ "rbr_decaps" \notin last.calls
       /\ IF rbr_nodes[last.skb.trh.egress] # 0
          THEN /\ Len(last.out) = 1
               /\ last.out[1].skb.trh.hop = 0
               /\ last.out[1].op \in {"br_forward", "br_trill_flood_forward"}
          ELSE last.out = <<>> /\ last.bufs = ("skb" :> <<"freed">>)
  /\ HopOneLocal =>
       /\ "rbr_decaps" \in last.calls
       /\ Len(last.out) = 1
       /\ last.out[1].op \in {"br_deliver", "br_endstation_deliver"}

\* a transit frame that arrived with hop count 1 has left with hop count 0
C10_Witness ==
  /\ HopOneTransit /\ Len(last.out) = 1 /\ last.out[1].skb.trh.hop = 0

\* the call on record is a unicast frame that arrived with hop count 0,
\* passes the checks of the receive path and names the local nickname as
\* egress
HopZeroLocal ==
  /\ Validated /\ last.skb.trh.md = 0 /\ last.skb.trh.hop = 0
  /\ last.skb.trh.ingress # nick /\ last.skb.trh.egress = nick

\* C11 as claimed: every TRILL frame that arrives on a fabric port with hop
\* count 0 is dropped: it is neither forwarded nor replicated nor
\* decapsulated, whatever its kind and its egress nickname.
C11_HopZeroAlwaysDropped ==
  (RecvCalled /\ last.skb.trh.hop = 0) => RecvDropped

\* C11 as amended: a TRILL frame that arrives with hop count 0 is neither
\* forwarded nor replicated; it is dropped, unless it is a unicast frame
\* that passes the checks of the receive path and names the local nickname
\* as egress, which is decapsulated and delivered.
C11_HopZeroNotForwarded ==
  (RecvCalled /\ last.skb.trh.hop = 0) =>
     /\ last.calls \cap {"rbr_fwd", "rbr_multidest_fwd"} = {}
     /\ IF HopZeroLocal
        THEN /\ "rbr_decaps" \in last.calls
             /\ Len(last.out) = 1
             /\ last.out[1].op \in {"br_deliver", "br_endstation_deliver"}
             /\ last.bufs = ("skb" :> <<last.out[1].op>>)
        ELSE RecvDropped /\ last.rx = 1

\* a frame with hop count 0 for the local nickname has been delivered to the
\* port the fdb resolved, and so has been decapsulated
C11_Witness ==
  /\ HopZeroLocal /\ Len(last.out) = 1 /\ last.out[1].op = "br_deliver"
  /\ last.out[1].skb.h_dest = "ES2"
\* the call on record is a multi-destination frame handed to rbr_recv
MdFrame == RecvCalled /\ last.skb.trh.md = 1

\* the frame on record was replicated or decapsulated
MdHandled == last.calls \cap {"rbr_multidest_fwd", "rbr_decaps"} # {}

\* the table holds a node for nickname n
InTable(n) == VALID_NICK(n) /\ rbr_nodes[n] # 0

\* the ingress node of the frame on record is in the table and advertises
\* the egress nickname as a root, or advertises no root while the egress
\* nickname is rbr->treeroot
RpfHolds ==
  LET I == last.skb.trh.ingress
      E == last.skb.trh.egress
  IN  /\ InTable(I)
      /\ \/ \E i \in 1..Len(TableNode(I).ni.dtroots) :
              TableNode(I).ni.dtroots[i] = E
         \/ TableNode(I).ni.dtroots = <<>> /\ E = treeroot

\* the egress node of the frame on record is in the table and the outer
\* source address is the adjsnpa of the table entry of one of its adjacencies
AdjacencyHolds ==
  LET E == last.skb.trh.egress IN
  /\ InTable(E)
  /\ \E i \in 1..Len(TableNode(E).ni.adjs) :
        /\ InTable(TableNode(E).ni.adjs[i])
        /\ TableNode(TableNode(E).ni.adjs[i]).ni.adjsnpa = last.skb.h_source

\* C12: a multi-destination frame is replicated or decapsulated only if the
\* table holds a node for its ingress nickname I and its egress nickname E
\* is among the dt_roots of that node, or the node advertises none and E is
\* the tree root of the bridge; in every other case it is dropped: no copy
\* is emitted and nothing is decapsulated.
C12_RpfCheck ==
  MdFrame =>
     /\ MdHandled => RpfHolds
     /\ ~RpfHolds => RecvDropped

\* a frame whose ingress node advertises roots, none of them the egress
\* nickname, has been dropped although the egress nickname is the tree root
\* of the bridge, the adjacency check passes and a hop is left
C12_Witness ==
  /\ MdFrame /\ Validated /\ last.skb.trh.ingress # nick
  /\ last.skb.trh.hop > 0 /\ AdjacencyHolds
  /\ InTable(last.skb.trh.ingress)
  /\ TableNode(last.skb.trh.ingress).ni.dtroots # <<>>
  /\ last.skb.trh.egress = treeroot
  /\ ~RpfHolds /\ RecvDropped
\* C17: a multi-destination frame is replicated or decapsulated only if the
\* table holds a node for its egress nickname E and its outer source address
\* is the adjsnpa of the table entry of a nickname among the adjacencies of
\* that node; when E is unknown, its adjacency list is empty or no listed
\* adjacency in the table has that address, the frame is dropped.
C17_AdjacencyCheck ==
  MdFrame =>
     /\ MdHandled => AdjacencyHolds
     /\ ~AdjacencyHolds => RecvDropped

\* a frame from a neighbour that is not an adjacency of the tree has been
\* dropped although the tree root has adjacencies in the table, the reverse
\* path check passes and a hop is left
C17_Witness ==
  /\ MdFrame /\ Validated /\ last.skb.trh.ingress # nick
  /\ last.skb.trh.hop > 0 /\ RpfHolds
  /\ InTable(last.skb.trh.egress)
  /\ \E i \in 1..Len(TableNode(last.skb.trh.egress).ni.adjs) :
        InTable(TableNode(last.skb.trh.egress).ni.adjs[i])
  /\ ~AdjacencyHolds /\ RecvDropped
\* C15: set_treeroot(rbr, n) with n not valid returns ENOENT and leaves
\* rbr->treeroot as it was; with n valid it returns 0 and rbr->treeroot is
\* n; nothing else of the RBridge state changes; the state is the one before
\* the call when n was the tree root already, and a second call with the
\* same n returns the same value and leaves the state it finds.
C15_SetTreeroot ==
  ctl.op = "set_treeroot" =>
     /\ IF VALID_NICK(ctl.arg)
        THEN ctl.rv = 0 /\ treeroot = ctl.arg
        ELSE ctl.rv = ENOENT /\ treeroot = ctl.pre_treeroot
     /\ ctl.arg = ctl.pre_treeroot => treeroot = ctl.pre_treeroot
     /\ nick = ctl.pre_nick /\ rbr_nodes = ctl.pre_tab
     /\ trill_enabled = ctl.was_enabled /\ br_rbr = "RBR" /\ rbr_alive
     /\ \A p \in NodePtrs : node[p].refs = ctl.pre_refs[p]
     /\ set_treeroot(treeroot, ctl.arg) = [treeroot |-> treeroot, rv |-> ctl.rv]

\* the tree root has been changed from one valid nickname to another
C15_Witness ==
  /\ ctl.op = "set_treeroot" /\ VALID_NICK(ctl.arg)
  /\ VALID_NICK(ctl.pre_treeroot) /\ ctl.pre_treeroot # ctl.arg
  /\ treeroot = ctl.arg /\ ctl.rv = 0

\* the call on record dropped the frame it was given: no buffer was handed
\* to a primitive of the bridge and the frame was consumed
FrameDropped ==
  /\ last.skb # NoSkb /\ last.ret = "consumed" /\ last.out = <<>>
  /\ \E b \in DOMAIN last.bufs : last.bufs[b] # <<>>

\* C16: every call of rbr_handle_frame that drops its frame while TRILL is
\* enabled adds to stats.rx_dropped or stats.tx_dropped of the bridge
\* device, whatever the reason of the drop.
C16_FailureAccounting ==
  (trill_enabled /\ FrameDropped) => last.rx + last.tx >= 1

(***************************************************************************)
(* Properties of the encapsulation of a frame from a guest port.           *)
(***************************************************************************)
\* the Ethernet frame a buffer holds: its addresses, its VLAN tag, in the
\* frame or out of band, and its EtherType
FrameOf(skb) ==
  [h_dest |-> skb.h_dest, h_source |-> skb.h_source, h_proto |-> skb.h_proto,
   vlan |-> IF skb.vlan_tci # "none" THEN skb.vlan_tci ELSE skb.tag]

\* the call on record is a frame of a guest port whose destination resolves
\* to a nickname in the table, on a bridge with a valid nickname
GuestUnicast ==
  /\ last.skb.port = "guest" /\ "rbr_encaps_prepare" \in last.calls
  /\ VALID_NICK(nick) /\ InTable(last.env.nick_from_mac)

\* rbr_encaps met a failure in the call on record
EncapFault ==
  \/ last.skb.vlan_tci # "none" /\ ~last.env.vlan_insert_ok
  \/ ~last.env.cow_ok

\* the frame emitted holds the frame received as its inner frame
InnerKept(o) ==
  o.skb.inner = [h_dest |-> last.skb.h_dest, h_source |-> last.skb.h_source,
                 h_proto |-> last.skb.h_proto, tag |-> FrameOf(last.skb).vlan]

\* C13 as claimed: the frame emitted for a frame of a guest port whose
\* destination resolves to nickname B in the table has the protocol version,
\* M = 0, hop count TRILL_DEFAULT_HOPS, egress B and the local nickname as
\* ingress, the adjsnpa of B as outer destination, the address of the bridge
\* as outer source, and the frame received as inner frame.
C13_EncapEmitsInitialHops ==
  (GuestUnicast /\ last.out # <<>>) =>
    LET o == last.out[1]
        B == last.env.nick_from_mac
    IN  /\ Len(last.out) = 1
        /\ o.skb.trh = [version |-> TRILL_PROTOCOL_VERS, md |-> 0, optlen |-> 0,
                        hop |-> TRILL_DEFAULT_HOPS, egress |-> B,
                        ingress |-> nick]
        /\ o.skb.h_dest = TableNode(B).ni.adjsnpa
        /\ o.skb.h_source = "MR"
        /\ InnerKept(o)

\* C13 as amended: that frame has hop count TRILL_DEFAULT_HOPS - 1, and as
\* outer source the address of the bridge, or of the port the fdb resolves
\* the outer destination to; the other fields are as claimed, and a frame is
\* emitted whenever rbr_encaps meets no failure.
C13_UnicastEncapEmission ==
  GuestUnicast =>
    LET B == last.env.nick_from_mac IN
    /\ EncapFault => last.out = <<>>
    /\ ~EncapFault =>
         /\ Len(last.out) = 1
         /\ last.out[1].op \in {"br_forward", "br_trill_flood_forward"}
         /\ last.out[1].skb.trh =
              [version |-> TRILL_PROTOCOL_VERS, md |-> 0, optlen |-> 0,
               hop |-> TRILL_DEFAULT_HOPS - 1, egress |-> B, ingress |-> nick]
         /\ last.out[1].skb.h_dest = TableNode(B).ni.adjsnpa
         /\ (last.out[1].op = "br_forward") =
              (TableNode(B).ni.adjsnpa \in last.env.fdb)
         /\ last.out[1].skb.h_source =
              (IF last.out[1].op = "br_forward" THEN "MQ" ELSE "MR")
         /\ last.out[1].skb.h_proto = "TRILL"
         /\ InnerKept(last.out[1])

\* a frame with an accelerated VLAN tag has been encapsulated and has left
\* through the TRILL flood primitive with one hop less than the default
C13_Witness ==
  /\ GuestUnicast /\ last.skb.vlan_tci = "vid10" /\ Len(last.out) = 1
  /\ last.out[1].op = "br_trill_flood_forward"
  /\ last.out[1].skb.trh.hop = TRILL_DEFAULT_HOPS - 1
  /\ last.out[1].skb.trh.egress # nick

FabricOut ==
  SelectSeq(last.out,
            LAMBDA o : o.op \in {"br_forward", "br_trill_flood_forward"})

\* the buffers the call on record delivered on this bridge
LocalOut ==
  SelectSeq(last.out,
            LAMBDA o : o.op \in {"br_deliver", "br_endstation_deliver"})

\* the members of a set of numbers in rising order
RECURSIVE Ascending(_)
Ascending(S) ==
  IF S = {} THEN <<>>
  ELSE LET lo == CHOOSE x \in S : \A y \in S : x <= y
       IN  <<lo>> \o Ascending(S \ {lo})

\* the places in the adjacency list of tree root E of the adjacencies that
\* survive the skip rules for ingress nickname I and outer source S ("NULL"
\* when there is none), in list order; none when the table has no node for E
Survivors(E, I, S) ==
  IF ~InTable(E) THEN <<>>
  ELSE Ascending({ i \in 1..Len(TableNode(E).ni.adjs) :
                     LET a == TableNode(E).ni.adjs[i] IN
                     /\ InTable(a) /\ a # I
                     /\ (S = "NULL" \/ TableNode(a).ni.adjsnpa # S) })

\* the call on record is a multi-destination frame that passes the checks
\* of the receive path, the adjacency check, the reverse path check and the
\* hop count check, and whose clone succeeds
MdAccepted ==
  /\ MdFrame /\ Validated /\ last.skb.trh.ingress # nick
  /\ AdjacencyHolds /\ RpfHolds /\ last.skb.trh.hop > 0
  /\ last.env.clone_ok

\* the Replicator, called for that frame, fails to copy the buffer for one
\* of the surviving adjacencies
MdCopyFails ==
  \E k \in 1..Len(Survivors(last.skb.trh.egress, last.skb.trh.ingress,
                             last.skb.h_source)) :
     Survivors(last.skb.trh.egress, last.skb.trh.ingress,
               last.skb.h_source)[k] = last.env.copy_fail

\* the original buffer was decapsulated and delivered, after every copy had
\* been handed to the Forwarder
DeliveredLast ==
  /\ "rbr_decaps" \in last.calls
  /\ Len(LocalOut) = 1
  /\ last.out[Len(last.out)].op \in {"br_deliver", "br_endstation_deliver"}
  /\ last.out[Len(last.out)].skb.id = "skb"
  /\ last.bufs["skb"] = <<last.out[Len(last.out)].op>>

\* C18 as claimed: for a multi-destination frame that passes the adjacency,
\* reverse path and hop count checks and whose clone succeeds, the clone is
\* handed to rbr_multidest_fwd and then the original is decapsulated and
\* delivered, whatever rbr_multidest_fwd does with the clone.
C18_ReplicateAndDeliver ==
  MdAccepted => ("rbr_multidest_fwd" \in last.calls /\ DeliveredLast)

\* C18 as amended: the clone is handed to rbr_multidest_fwd; when that
\* returns success, also with no adjacency surviving, the original is then
\* decapsulated and delivered; when it fails, here on a copy that cannot be
\* made, the original is dropped and counted in rx_dropped, and nothing is
\* delivered on this bridge.
C18_ReplicateThenDeliver ==
  MdAccepted =>
     /\ "rbr_multidest_fwd" \in last.calls
     /\ last.bufs["skb2"] = <<"freed">>
     /\ IF MdCopyFails
        THEN /\ "rbr_decaps" \notin last.calls
             /\ LocalOut = <<>>
             /\ last.bufs["skb"] = <<"freed">>
             /\ last.rx = 1
        ELSE DeliveredLast

\* a frame whose second copy could not be made has been dropped after its
\* first copy had left
C18_Witness ==
  /\ MdAccepted /\ MdCopyFails /\ Len(FabricOut) = 1
  /\ "rbr_decaps" \notin last.calls /\ last.bufs["skb"] = <<"freed">>

\* the call on record is a frame of a guest port whose destination resolves
\* to no nickname, on a bridge with a valid nickname
FloodCall ==
  /\ last.skb.port = "guest" /\ "rbr_encaps_prepare" \in last.calls
  /\ VALID_NICK(nick) /\ last.env.nick_from_mac = RBRIDGE_NICKNAME_NONE

\* the tree root of the claim: the first dt root of the local node when it
\* advertises any, and the tree root of the bridge otherwise
ClaimedRoot ==
  IF InTable(nick) /\ TableNode(nick).ni.dtroots # <<>>
  THEN TableNode(nick).ni.dtroots[1]
  ELSE treeroot

\* nothing was delivered and nothing emitted, and the buffer was freed
FloodDropped ==
  last.out = <<>> /\ "freed" \in {last.bufs["skb"][k] : k \in 1..Len(last.bufs["skb"])}

\* one clone of the frame was delivered on this bridge, and every buffer
\* sent on the fabric is a multi-destination frame from the local nickname
\* on the tree of ClaimedRoot, none of them sent toward the local nickname
FloodDelivered ==
  /\ Len(LocalOut) = 1
  /\ last.out[1].op = "br_endstation_deliver"
  /\ FrameOf(last.out[1].skb) = FrameOf(last.skb)
  /\ last.out[1].skb.trh = NoTrh
  /\ Len(last.sent) = Len(FabricOut)
  /\ \A k \in 1..Len(FabricOut) :
        /\ FabricOut[k].skb.trh.md = 1
        /\ FabricOut[k].skb.trh.ingress = nick
        /\ FabricOut[k].skb.trh.egress = ClaimedRoot
        /\ last.sent[k] # nick

\* C19 as claimed: a frame of a guest port that resolves to no nickname, on
\* a bridge with a valid nickname, is dropped with no delivery and no
\* emission when ClaimedRoot is not valid; otherwise one clone is delivered
\* on this bridge and every copy emitted has M = 1, the local nickname as
\* ingress and ClaimedRoot as egress, none going to the local nickname.
C19_FloodEncapsulation ==
  FloodCall =>
     IF VALID_NICK(ClaimedRoot) THEN FloodDelivered ELSE FloodDropped

\* C19 as amended: the frame is dropped with no delivery and no emission
\* when the table has no node for the local nickname, when ClaimedRoot is
\* not valid, and when the clone for the local delivery cannot be made;
\* otherwise it is as claimed, and copies are sent on the fabric only when
\* rbr_encaps meets no failure.
C19_FloodWhenLocalNodeKnown ==
  FloodCall =>
     IF ~InTable(nick) \/ ~VALID_NICK(ClaimedRoot) \/ ~last.env.clone_ok
     THEN FloodDropped /\ last.tx >= 1
     ELSE /\ FloodDelivered
          /\ ("rbr_multidest_fwd" \in last.calls) = ~EncapFault
          /\ EncapFault => FabricOut = <<>>
          /\ (~EncapFault /\ last.env.copy_fail = 0) =>
                Len(FabricOut) = Len(Survivors(ClaimedRoot, nick, "NULL"))

\* a frame has been flooded on the tree of the first dt root of the local
\* node, which is not the tree root of the bridge, and a copy has left
C19_Witness ==
  /\ FloodCall /\ InTable(nick) /\ TableNode(nick).ni.dtroots # <<>>
  /\ ClaimedRoot # treeroot /\ FloodDelivered /\ Len(FabricOut) >= 1
\* the call on record entered rbr_multidest_fwd, from rbr_recv (free =
\* false) or from rbr_encaps_prepare (free = true)
ReplicatorCalled == "rbr_multidest_fwd" \in last.calls

ReplFree == last.skb.port = "guest"

\* the tree root, the ingress nickname and the prune address of that call
ReplRoot == IF ReplFree THEN ClaimedRoot ELSE last.skb.trh.egress

ReplIngress == IF ReplFree THEN nick ELSE last.skb.trh.ingress

ReplSaddr == IF ReplFree THEN "NULL" ELSE last.skb.h_source

ReplSurvivors == Survivors(ReplRoot, ReplIngress, ReplSaddr)

\* the place in the adjacency list of the adjacency a buffer handed to the
\* Forwarder is for: a copy made at place i has the i-th copy id, and the
\* buffer the Replicator was given goes to the first surviving adjacency
PlaceOf(o) ==
  IF o.skb.id \in {CopyIds[i] : i \in 1..Len(CopyIds)}
  THEN CHOOSE i \in 1..Len(CopyIds) : CopyIds[i] = o.skb.id
  ELSE ReplSurvivors[1]

\* C20 as claimed: whatever free is, the buffers the Replicator hands to
\* the Forwarder leave in the order of the adjacency list: the buffer for
\* an adjacency leaves before the buffer for any adjacency further down.
C20_ListOrder ==
  ReplicatorCalled =>
     \A j, k \in 1..Len(FabricOut) :
        j < k => PlaceOf(FabricOut[j]) < PlaceOf(FabricOut[k])

\* the places of the adjacencies a copy is made for, in list order, up to
\* the copy that cannot be made
ReplCopied ==
  LET c == IF ReplFree /\ ReplSurvivors # <<>> THEN Tail(ReplSurvivors)
           ELSE ReplSurvivors
  IN  SelectSeq(c, LAMBDA i :
                  \A k \in 1..Len(c) :
                     c[k] = last.env.copy_fail => i < c[k])

\* a copy of that call cannot be made
ReplCopyFails ==
  LET c == IF ReplFree /\ ReplSurvivors # <<>> THEN Tail(ReplSurvivors)
           ELSE ReplSurvivors
  IN  \E k \in 1..Len(c) : c[k] = last.env.copy_fail

\* C20 as amended: with free false a copy leaves for every surviving
\* adjacency, in list order; with free true the copies for the second and
\* the later surviving adjacencies leave in list order and the buffer the
\* Replicator was given leaves last, for the first surviving adjacency;
\* when a copy cannot be made nothing leaves after the copies made before.
C20_DeferredFirst ==
  ReplicatorCalled =>
     /\ Len(last.sent) = Len(FabricOut)
     /\ Len(FabricOut) =
          Len(ReplCopied) +
            (IF ReplFree /\ ReplSurvivors # <<>> /\ ~ReplCopyFails THEN 1 ELSE 0)
     /\ \A k \in 1..Len(FabricOut) :
          IF k <= Len(ReplCopied)
          THEN /\ FabricOut[k].skb.id = CopyIds[ReplCopied[k]]
               /\ last.sent[k] = TableNode(ReplRoot).ni.adjs[ReplCopied[k]]
          ELSE /\ FabricOut[k].skb.id = "skb"
               /\ last.sent[k] = TableNode(ReplRoot).ni.adjs[ReplSurvivors[1]]
     /\ \A k \in 1..Len(FabricOut) :
          FabricOut[k].skb.h_dest = TableNode(last.sent[k]).ni.adjsnpa

\* the buffer of a flooded frame has left for the first surviving adjacency
\* after the copy made for an adjacency further down the list
C20_Witness ==
  /\ ReplicatorCalled /\ ReplFree /\ Len(FabricOut) = 2
  /\ FabricOut[2].skb.id = "skb"
  /\ PlaceOf(FabricOut[1]) > PlaceOf(FabricOut[2])

(***************************************************************************)
(* Properties of the references a call takes on neighbour nodes.           *)
(***************************************************************************)
\* C21: every reference rbr_find_node has given to a call of the handler
\* that entered rbr_recv is released when the call returns, on every path:
\* once the call has returned no node is held beyond its table slot, and
\* every node in the table has a reference count of 1.
C21_ReferenceBalance ==
  RecvCalled =>
     /\ NoLeak
     /\ \A n \in ValidNicks : InTable(n) => TableNode(n).refs = 1

(***************************************************************************)
(* Properties of concurrent calls of br_trill_set_enabled.                 *)
(***************************************************************************)
\* no thread is inside br_trill_set_enabled
ThreadsIdle == \A t \in Threads : cth[t].pc = "idle"

\* C22: concurrent calls of br_trill_set_enabled are serialized by the
\* bridge lock: once they have all returned, no struct rbr is allocated
\* other than the one br->rbr points to (none leaked, not two attached),
\* and trill_enabled is not set while br->rbr is NULL.
C22_LockDiscipline ==
  ThreadsIdle =>
     /\ rbrs \subseteq {br_rbr}
     /\ trill_enabled => br_rbr # "NULL"

(***************************************************************************)
(* Properties of the hop count of the frames rbr_fwd sends.                *)
(***************************************************************************)
\* the call on record entered rbr_fwd
FwdCalled == "rbr_fwd" \in last.calls

\* the hop count of the buffers the call on record gave to rbr_fwd: that of
\* the TRILL header received, or the one rbr_encaps wrote for a guest frame
HopsGiven ==
  IF last.skb.port = "guest" THEN TRILL_DEFAULT_HOPS ELSE last.skb.trh.hop

\* C23: whenever a call reaches rbr_fwd, from the unicast transit branch of
\* rbr_recv, from rbr_multidest_fwd or from rbr_encaps_prepare, the hop
\* count of the frame is greater than 0 when trillhdr_dec_hopcount is
\* applied to it: every frame sent has the hop count it was given less one,
\* a value in 0..62, and the 6-bit field does not wrap.
C23_NoHopUnderflow ==
  FwdCalled =>
     /\ HopsGiven > 0
     /\ \A k \in 1..Len(FabricOut) :
          /\ FabricOut[k].skb.trh.hop = HopsGiven - 1
          /\ FabricOut[k].skb.trh.hop \in 0..(HopModulus - 2)

\* rbr_multidest_fwd has sent a copy of a multi-destination frame that
\* arrived with hop count 1, the smallest that passes: the copy has hop
\* count 0
C23_Witness ==
  /\ RecvCalled /\ ReplicatorCalled /\ FwdCalled
  /\ last.skb.trh.hop = 1
  /\ Len(FabricOut) >= 1
  /\ FabricOut[1].skb.trh.hop = 0

=============================================================================
